---- MODULE Spec2Model ----
(***************************************************************************)
(* Model of the BirdNET-Go Cockpit dashboard (src/unnamed/part_000, the    *)
(* same logic as src/src/app.tsx): the status probes and refreshStatus,    *)
(* the control surface, the update check and the upgrade routine.          *)
(*                                                                         *)
(* Text the code parses is a sequence of tokens (a token is a piece of     *)
(* text the code never looks inside), so that startsWith, includes, split, *)
(* trim, replace and the regular expressions are computed, not assumed.    *)
(* A command run through cockpit.spawn either fails (the promise rejects)  *)
(* or succeeds with the output the host would print.                       *)
(***************************************************************************)
EXTENDS Integers, Sequences, FiniteSets, TLC

VARIABLES
    \* ---- the host the commands talk to
    hostDocker,       \* "absent" | "inactive" | "active"
    hostUnit,         \* birdnet-go.service: [exists, enabled, active]
    hostImages,       \* output lines of `docker images`
    hostContainers,   \* the containers `docker ps -a` lists
    hostHealth,       \* what the health endpoint answers
    hostFaults,       \* the probe commands that fail on this host
    hostConfig,       \* what `docker inspect` reports for the BirdNET-Go container
    \* ---- React state of the Application component
    dockerStatus, systemdStatus, containerStatus, healthStatus, versionInfo,
    loading, upgrading,
    \* ---- running invocations
    refresh,          \* the refreshStatus invocations in progress
    upgrade,          \* the upgradeBirdNetGo invocation
    check,            \* the checkForUpdates invocations
    \* ---- observations
    lastProbe,        \* what the last application probe read from the host
    lastCheck,        \* what the last completed update check read
    alerts,           \* notices the last upgrade run raised with alert()
    cmdLog,           \* argv of the commands the last upgrade run issued, and its calls
    issued,           \* the commands each status probe issued when it last ran
    \* ---- the polling timers and the log view
    timers,           \* live setInterval timers of each kind
    containerLogs,
    selectedLogFile, hostLog, appLogs, logLevelFilter, logSearchText,
    displayed,        \* filteredLogs as last rendered
    \* ---- the control handlers
    control,          \* the start/stop/restart handler invocation
    restarting

vars == <<hostDocker, hostUnit, hostImages, hostContainers, hostHealth, hostFaults, hostConfig,
          dockerStatus, systemdStatus, containerStatus, healthStatus, versionInfo,
          loading, upgrading, refresh, upgrade, check, lastProbe, lastCheck, alerts, cmdLog,
          issued, timers, containerLogs, selectedLogFile, hostLog, appLogs, logLevelFilter,
          logSearchText, displayed, control, restarting>>

hostVars == <<hostDocker, hostUnit, hostImages, hostContainers, hostHealth, hostFaults,
              hostConfig>>

viewVars == <<containerLogs, selectedLogFile, hostLog, appLogs, logLevelFilter, logSearchText,
              displayed>>

controlVars == <<control, restarting>>

(***************************************************************************)
(* Bounds of the model.                                                    *)
(***************************************************************************)
MaxRefresh == 2        \* refreshStatus invocations in progress at once
MaxChecks == 2         \* checkForUpdates invocations in progress at once
MaxUpgrades == 1       \* upgrade runs in one behaviour
MaxVersions == 1       \* package versions in one registry answer

(***************************************************************************)
(* Text helpers.                                                           *)
(***************************************************************************)
Undefined == <<"<undefined>">>

StartsWith(s, p) == Len(s) >= Len(p) /\ SubSeq(s, 1, Len(p)) = p

Includes(s, p) == \E i \in 1..(Len(s) - Len(p) + 1) : SubSeq(s, i, i + Len(p) - 1) = p

IsSpace(t) == t \in {" ", "\n"}

RECURSIVE TrimStart(_)
TrimStart(s) == IF s # <<>> /\ IsSpace(Head(s)) THEN TrimStart(Tail(s)) ELSE s

RECURSIVE TrimEnd(_)
TrimEnd(s) == IF s # <<>> /\ IsSpace(s[Len(s)]) THEN TrimEnd(SubSeq(s, 1, Len(s) - 1)) ELSE s

Trim(s) == TrimEnd(TrimStart(s))

\* String.prototype.split(sep): the pieces between the separators.
RECURSIVE SplitFrom(_, _, _)
SplitFrom(s, sep, cur) ==
    IF s = <<>> THEN <<cur>>
    ELSE IF Head(s) = sep THEN <<cur>> \o SplitFrom(Tail(s), sep, <<>>)
    ELSE SplitFrom(Tail(s), sep, Append(cur, Head(s)))

Split(s, sep) == SplitFrom(s, sep, <<>>)

RECURSIVE Join(_, _)
Join(parts, sep) ==
    IF parts = <<>> THEN <<>>
    ELSE IF Len(parts) = 1 THEN parts[1]
    ELSE parts[1] \o <<sep>> \o Join(Tail(parts), sep)

(***************************************************************************)
(* Command results.                                                        *)
(***************************************************************************)
Failed == [ok |-> FALSE, out |-> <<>>]
Ok(text) == [ok |-> TRUE, out |-> text]

(***************************************************************************)
(* The host.                                                               *)
(***************************************************************************)
BirdnetImage == "ghcr.io/tphakala/birdnet-go"

Container(id, image, status, name) ==
    [id |-> id, image |-> image, status |-> status, name |-> name]

CtUp      == Container(<<"c1">>, <<BirdnetImage, ":nightly">>, <<"Up", " 2 hours">>, <<"birdnet-go">>)
CtExited  == Container(<<"c1">>, <<BirdnetImage, ":nightly">>, <<"Exited", " (0)">>, <<"birdnet-go">>)
CtDev     == Container(<<"d1">>, <<"vsc-", "birdnet-go">>, <<"Up", " 1 hour">>, <<"birdnet-go">>)
CtOther   == Container(<<"n1">>, <<"nginx">>, <<"Up", " 3 days">>, <<"web">>)

NightlyImage == <<BirdnetImage, ":nightly">>

\* What Docker holds: the images and the containers.
DockerContents ==
    { [images |-> <<>>, containers |-> <<>>],
      [images |-> <<NightlyImage>>, containers |-> <<>>],
      [images |-> <<NightlyImage>>, containers |-> <<CtUp>>],
      [images |-> <<NightlyImage>>, containers |-> <<CtExited>>],
      [images |-> <<NightlyImage>>, containers |-> <<CtDev>>],
      [images |-> <<>>, containers |-> <<CtOther, CtExited>>] }

Payload(status, version) ==
    [kind |-> "json", status |-> status, version |-> version, build_date |-> <<"2025-08-31">>]
NoPayload(kind) == [kind |-> kind, status |-> "", version |-> <<>>, build_date |-> <<>>]

VStable  == <<"1", ".", "2", ".", "3">>

HealthAnswers ==
    { NoPayload("down"), NoPayload("empty"), NoPayload("garbage"),
      Payload("healthy", VStable), Payload("degraded", VStable), Payload("unhealthy", VStable) }

Units == { [exists |-> FALSE, enabled |-> FALSE, active |-> FALSE],
           [exists |-> TRUE, enabled |-> FALSE, active |-> FALSE],
           [exists |-> TRUE, enabled |-> TRUE, active |-> TRUE] }

\* `docker ps -a --format '{{.ID}}|{{.Image}}|{{.Status}}|{{.Names}}'`
PsLine(c) == c.id \o <<"|">> \o c.image \o <<"|">> \o c.status \o <<"|">> \o c.name

RECURSIVE PsOutput(_)
PsOutput(cs) == IF cs = <<>> THEN <<>> ELSE PsLine(Head(cs)) \o <<"\n">> \o PsOutput(Tail(cs))

\* `docker images --format '{{.Repository}}:{{.Tag}}'`
RECURSIVE ImagesOutput(_)
ImagesOutput(is) == IF is = <<>> THEN <<>> ELSE Head(is) \o <<"\n">> \o ImagesOutput(Tail(is))

\* The part of `docker inspect` the upgrade reads. has* is false when the section
\* is missing; a port whose bindings are null has isArray false.
Binding(containerPort, isArray, hostPorts) ==
    [containerPort |-> containerPort, isArray |-> isArray, hostPorts |-> hostPorts]
Mount(type, source, destination) ==
    [Type |-> type, Source |-> source, Destination |-> destination]

ConfigFull ==
    [Name |-> <<"/", "birdnet-go">>,
     hasPorts |-> TRUE,
     PortBindings |-> << Binding(<<"8080", "/", "tcp">>, TRUE, << <<"8080">> >>),
                         Binding(<<"8090", "/", "tcp">>, FALSE, <<>>) >>,
     hasMounts |-> TRUE,
     Mounts |-> << Mount("bind", <<"/data">>, <<"/data">>),
                   Mount("volume", <<"cache">>, <<"/cache">>) >>,
     hasEnv |-> TRUE,
     Env |-> << <<"PATH=", "/usr/bin">>, <<"FOO=", "bar">>, <<"HOME=", "/root">> >>]

ConfigPorts ==
    [Name |-> <<"/", "birdnet-go">>,
     hasPorts |-> TRUE,
     PortBindings |-> << Binding(<<"8080", "/", "tcp">>, TRUE, << <<"80">>, <<"8080">> >>),
                         Binding(<<"53", "/", "udp">>, TRUE, << <<"5353">> >>) >>,
     hasMounts |-> TRUE,
     Mounts |-> << Mount("bind", <<"/home/", "config">>, <<"/config">>),
                   Mount("bind", <<"/data">>, <<"/data">>) >>,
     hasEnv |-> TRUE,
     Env |-> << <<"PATHS=", "x">>, <<"TZ=", "UTC">> >>]

ConfigBare ==
    [Name |-> <<"/", "bn">>, hasPorts |-> FALSE, PortBindings |-> <<>>,
     hasMounts |-> FALSE, Mounts |-> <<>>, hasEnv |-> FALSE, Env |-> <<>>]

Configs == {ConfigFull, ConfigPorts, ConfigBare}

\* The commands the probes run; hostFaults names the ones that fail on this host
\* although the program they call is installed.
ProbeCommands == {"docker --version", "systemctl is-active docker", "systemctl list-unit-files",
                  "systemctl is-enabled", "systemctl is-active", "docker images", "docker ps"}

FaultSets == {{}} \cup {{c} : c \in ProbeCommands}

\* The result of a command on the present host: the promise rejects, or resolves
\* with what the command prints.
Run(cmd, works, text) == IF works /\ cmd \notin hostFaults THEN Ok(text) ELSE Failed

DockerVersionResult ==
    Run("docker --version", hostDocker # "absent", <<"Docker version 27", "\n">>)
DockerActiveResult ==
    Run("systemctl is-active docker", TRUE,
        <<IF hostDocker = "active" THEN "active" ELSE "inactive", "\n">>)
UnitFilesResult ==
    Run("systemctl list-unit-files", TRUE,
        IF hostUnit.exists THEN <<"birdnet-go.service", " enabled", "\n">> ELSE <<"0 unit files listed.", "\n">>)
UnitEnabledResult ==
    Run("systemctl is-enabled", hostUnit.enabled, <<"enabled", "\n">>)
UnitActiveResult ==
    Run("systemctl is-active", hostUnit.active, <<"active", "\n">>)
ImagesResult ==
    Run("docker images", hostDocker # "absent", ImagesOutput(hostImages))
PsResult ==
    Run("docker ps", hostDocker # "absent", PsOutput(hostContainers))
HealthResult ==
    IF hostHealth.kind = "down"
    THEN [ok |-> FALSE, out |-> NoPayload("down")]
    ELSE [ok |-> TRUE, out |-> hostHealth]

(***************************************************************************)
(* JSON.parse of the health endpoint's answer: an empty body is falsy and  *)
(* never parsed, anything that is not JSON makes JSON.parse throw.         *)
(***************************************************************************)
IsEmptyBody(body) == body.kind = "empty"
JsonParses(body) == body.kind = "json"

(***************************************************************************)
(* The probes. Each returns [threw, value]: threw says that the probe      *)
(* rejected (an exception escaped it), value is the record it stored.      *)
(***************************************************************************)
Stored(v) == [threw |-> FALSE, value |-> v]
Threw(v) == [threw |-> TRUE, value |-> v]

DockerDown == [available |-> FALSE, running |-> FALSE, version |-> Undefined]

\* Mutant: the record is built from whichever command succeeded.
checkDockerStatusPartial(ver, act) ==
    IF ver.ok
    THEN Stored([available |-> TRUE,
                 running |-> (act.ok /\ Trim(act.out) = <<"active">>),
                 version |-> Trim(ver.out)])
    ELSE Stored(DockerDown)

checkDockerStatus(ver, act) ==
    IF ver.ok /\ act.ok
    THEN Stored([available |-> TRUE,
                 running |-> (Trim(act.out) = <<"active">>),
                 version |-> Trim(ver.out)])
    ELSE Stored(DockerDown)

SystemdAbsent == [exists |-> FALSE, running |-> FALSE, enabled |-> FALSE, status |-> Undefined]

\* Mutant: the enabled and active queries are made whatever the unit file list says.
checkSystemdStatusUnlisted(files, enabled, active) ==
    Stored([exists |-> (files.ok /\ Includes(files.out, <<"birdnet-go.service">>)),
            running |-> (active.ok /\ Trim(active.out) = <<"active">>),
            enabled |-> (enabled.ok /\ Trim(enabled.out) = <<"enabled">>),
            status |-> IF active.ok THEN Trim(active.out) ELSE <<"inactive">>])

\* Mutant: the enabled and active queries share the outer try.
checkSystemdStatusOneTry(files, enabled, active) ==
    IF files.ok /\ enabled.ok /\ active.ok /\ Includes(files.out, <<"birdnet-go.service">>)
    THEN Stored([exists |-> TRUE, running |-> (Trim(active.out) = <<"active">>),
                 enabled |-> (Trim(enabled.out) = <<"enabled">>),
                 status |-> Trim(active.out)])
    ELSE Stored(SystemdAbsent)

checkSystemdStatus(files, enabled, active) ==
    IF ~files.ok THEN Stored(SystemdAbsent)
    ELSE IF Includes(files.out, <<"birdnet-go.service">>)
    THEN LET isEnabled == enabled.ok /\ Trim(enabled.out) = <<"enabled">>
             simpleStatus == IF active.ok THEN Trim(active.out) ELSE <<"inactive">>
             isRunning == active.ok /\ simpleStatus = <<"active">>
         IN Stored([exists |-> TRUE, running |-> isRunning, enabled |-> isEnabled,
                    status |-> simpleStatus])
    ELSE Stored(SystemdAbsent)

ContainerAbsent(imagePresent) ==
    [exists |-> FALSE, running |-> FALSE, imagePresent |-> imagePresent,
     containerId |-> Undefined, status |-> Undefined]

\* The health check inside the application probe (2 s timeout).
IsActuallyRunning(health) ==
    /\ health.ok
    /\ ~IsEmptyBody(health.out)
    /\ JsonParses(health.out)
    /\ health.out.status \in {"healthy", "degraded"}

\* The predicate of containerLines.find: parts[1] is the image, parts[3] the name.
\* A line without a second field makes image.startsWith throw.
LineThrows(line) == Len(Split(line, "|")) < 2

LineMatches(line) ==
    LET parts == Split(line, "|")
        image == parts[2]
        name == IF Len(parts) >= 4 THEN parts[4] ELSE Undefined
    IN /\ ~StartsWith(image, <<"vsc-">>)
       /\ \/ StartsWith(image, <<BirdnetImage>>)
          \/ image = <<"birdnet-go">>
          \/ name = <<"birdnet-go">>

\* Array.prototype.find: index of the first matching line, 0 for none, -1 when the
\* predicate throws before a line matches.
RECURSIVE FindFrom(_, _)
FindFrom(lines, i) ==
    IF i > Len(lines) THEN 0
    ELSE IF LineThrows(lines[i]) THEN -1
    ELSE IF LineMatches(lines[i]) THEN i
    ELSE FindFrom(lines, i + 1)

\* Mutant: the image listing is awaited outside the try block.
checkBirdNetGoStatusNoCatch(images, health, ps) ==
    IF ~images.ok \/ ~ps.ok THEN Threw(ContainerAbsent(FALSE))
    ELSE Stored(ContainerAbsent(Includes(images.out, <<BirdnetImage>>)))

checkBirdNetGoStatus(images, health, ps) ==
    IF ~images.ok THEN Stored(ContainerAbsent(FALSE))
    ELSE IF ~ps.ok THEN Stored(ContainerAbsent(FALSE))
    ELSE
      LET imagePresent == Includes(images.out, <<BirdnetImage>>)
          isActuallyRunning == IsActuallyRunning(health)
          running == [exists |-> TRUE, running |-> TRUE, imagePresent |-> imagePresent,
                      containerId |-> Undefined, status |-> Undefined]
      IN IF Trim(ps.out) # <<>>
         THEN LET containerLines == Split(Trim(ps.out), "\n")
                  found == FindFrom(containerLines, 1)
              IN IF found = -1 THEN Stored(ContainerAbsent(FALSE))
                 ELSE IF found > 0
                 THEN LET parts == Split(containerLines[found], "|")
                      IN IF Len(parts) < 3 THEN Stored(ContainerAbsent(FALSE))
                         ELSE Stored([exists |-> TRUE,
                                      running |-> (isActuallyRunning \/ StartsWith(parts[3], <<"Up">>)),
                                      imagePresent |-> imagePresent,
                                      containerId |-> parts[1],
                                      status |-> parts[3]])
                 ELSE IF isActuallyRunning
                 THEN Stored([running EXCEPT !.status = <<"Running (non-Docker or custom container)">>])
                 ELSE Stored(ContainerAbsent(imagePresent))
         ELSE IF isActuallyRunning
              THEN Stored([running EXCEPT !.status = <<"Running (non-Docker)">>])
              ELSE Stored(ContainerAbsent(imagePresent))

NoHealth == NoPayload("null")

\* fetchHealthStatus: gate is containerStatus.running || systemdStatus.running as the
\* closure saw them; the result is the new healthStatus and versionInfo.
fetchHealthStatus(gate, health, info) ==
    IF ~gate THEN Stored([health |-> NoHealth, info |-> info])
    ELSE IF health.ok /\ ~IsEmptyBody(health.out) /\ JsonParses(health.out)
    THEN Stored([health |-> health.out,
                 info |-> [info EXCEPT !.current = health.out.version,
                                       !.buildDate = health.out.build_date]])
    ELSE Stored([health |-> NoHealth, info |-> info])

(***************************************************************************)
(* Version strings and registry tags are sequences of characters.          *)
(***************************************************************************)
Digits == <<"0", "1", "2", "3", "4", "5", "6", "7", "8", "9">>

IsDigit(c) == \E d \in 1..10 : Digits[d] = c

DigitValue(c) == (CHOOSE d \in 1..10 : Digits[d] = c) - 1

\* String.prototype.replace(c, ''): the first occurrence of c is removed.
RECURSIVE ReplaceFirst(_, _)
ReplaceFirst(s, c) ==
    IF s = <<>> THEN <<>>
    ELSE IF Head(s) = c THEN Tail(s)
    ELSE <<Head(s)>> \o ReplaceFirst(Tail(s), c)

\* A JavaScript number that may be NaN.
NaN == [nan |-> TRUE, n |-> 0]
Num(n) == [nan |-> FALSE, n |-> n]

RECURSIVE LeadingDigits(_)
LeadingDigits(s) ==
    IF s # <<>> /\ IsDigit(Head(s)) THEN <<Head(s)>> \o LeadingDigits(Tail(s)) ELSE <<>>

RECURSIVE DecimalValue(_, _)
DecimalValue(ds, acc) ==
    IF ds = <<>> THEN acc ELSE DecimalValue(Tail(ds), acc * 10 + DigitValue(Head(ds)))

\* parseInt(s): the value of the leading decimal digits, NaN when there are none.
ParseInt(s) ==
    IF LeadingDigits(s) = <<>> THEN NaN ELSE Num(DecimalValue(LeadingDigits(s), 0))

\* x || 0 on a number: NaN and 0 are falsy.
OrZero(x) == IF x.nan THEN Num(0) ELSE x

Mul(x, k) == IF x.nan THEN NaN ELSE Num(x.n * k)
Add(x, y) == IF x.nan \/ y.nan THEN NaN ELSE Num(x.n + y.n)
\* Every comparison with NaN is false.
Greater(x, y) == ~x.nan /\ ~y.nan /\ x.n > y.n

NightlyWord == <<"n", "i", "g", "h", "t", "l", "y">>
NightlyDash == NightlyWord \o <<"-">>
DateDigits == 8

\* /nightly-(\d{8})/: the eight digits of the first match, <<>> when nothing matches.
NightlyDateAt(s, i) ==
    /\ i + Len(NightlyDash) + DateDigits - 1 <= Len(s)
    /\ SubSeq(s, i, i + Len(NightlyDash) - 1) = NightlyDash
    /\ \A k \in 0..(DateDigits - 1) : IsDigit(s[i + Len(NightlyDash) + k])

RECURSIVE FirstNightlyDate(_, _)
FirstNightlyDate(s, i) ==
    IF i > Len(s) THEN 0
    ELSE IF NightlyDateAt(s, i) THEN i
    ELSE FirstNightlyDate(s, i + 1)

MatchNightlyDate(s) ==
    LET i == FirstNightlyDate(s, 1)
    IN IF i = 0 THEN <<>>
       ELSE SubSeq(s, i + Len(NightlyDash), i + Len(NightlyDash) + DateDigits - 1)

\* parseInt of the date a tag or version carries, 0 when it carries none.
DateOf(s) ==
    LET digits == MatchNightlyDate(s)
    IN IF digits = <<>> THEN 0 ELSE ParseInt(digits).n

\* The tags of all package versions, in the order forEach visits them.
RECURSIVE AllTags(_)
AllTags(versions) ==
    IF versions = <<>> THEN <<>>
    ELSE (IF Head(versions).hasTags THEN Head(versions).tags ELSE <<>>) \o AllTags(Tail(versions))


\* The forEach over the tags: collects the nightly tags and keeps the newest one.
RECURSIVE ScanTags(_, _)
ScanTags(tags, acc) ==
    IF tags = <<>> THEN acc
    ELSE LET tag == Head(tags)
             dateMatch == MatchNightlyDate(tag)
             date == ParseInt(dateMatch).n
         IN IF StartsWith(tag, NightlyDash) /\ dateMatch # <<>>
            THEN ScanTags(Tail(tags),
                     [nightlyTags |-> Append(acc.nightlyTags, tag),
                      latestNightlyDate |-> IF date > acc.latestNightlyDate
                                            THEN date ELSE acc.latestNightlyDate,
                      latestNightlyTag |-> IF date > acc.latestNightlyDate
                                           THEN tag ELSE acc.latestNightlyTag])
            ELSE ScanTags(Tail(tags), acc)

ScanStart == [nightlyTags |-> <<>>, latestNightlyDate |-> 0, latestNightlyTag |-> <<>>]

\* nightlyTags.sort((a, b) => dateB - dateA): a stable sort, newest date first.
RECURSIVE InsertByDate(_, _)
InsertByDate(sorted, tag) ==
    IF sorted = <<>> THEN <<tag>>
    ELSE IF DateOf(Head(sorted)) >= DateOf(tag)
         THEN <<Head(sorted)>> \o InsertByDate(Tail(sorted), tag)
         ELSE <<tag>> \o sorted

RECURSIVE SortByDate(_)
SortByDate(tags) ==
    IF tags = <<>> THEN <<>>
    ELSE InsertByDate(SortByDate(SubSeq(tags, 1, Len(tags) - 1)), tags[Len(tags)])

KeptTags == 5
Slice(s, n) == SubSeq(s, 1, IF Len(s) < n THEN Len(s) ELSE n)

PackagesUrl == <<"https://github.com/tphakala/birdnet-go/pkgs/container/birdnet-go">>

\* The nightly path once the registry answered with a package version array.
NightlyResolved(currentVersion, versions, prev) ==
    LET scan == ScanTags(AllTags(versions), ScanStart)
        currentDate == DateOf(currentVersion)
        updateAvailable == scan.latestNightlyDate > currentDate
    IN [prev EXCEPT
          !.latestNightly = IF scan.latestNightlyTag # <<>> THEN scan.latestNightlyTag
                            ELSE NightlyWord,
          !.nightlyTags = Slice(SortByDate(scan.nightlyTags), KeptTags),
          !.updateAvailable = updateAvailable,
          !.checkingUpdate = FALSE,
          !.releaseNotes = IF updateAvailable
                           THEN <<"Newer nightly build available: ">> \o scan.latestNightlyTag
                           ELSE <<"You are on the latest nightly build">>,
          !.releaseUrl = PackagesUrl]

\* The nightly path when the registry query or the handling of its answer threw.
\* Mutant: the registry failure is reported as an error.
NightlyFallbackError(prev) ==
    [prev EXCEPT !.checkingUpdate = FALSE, !.updateError = <<"Failed to check for updates">>]

NightlyFallback(prev) ==
    [prev EXCEPT
          !.latest = <<"nightly (development build)">>,
          !.updateAvailable = FALSE,
          !.checkingUpdate = FALSE,
          !.releaseNotes = <<"Nightly builds contain the latest development features and fixes">>,
          !.releaseUrl = PackagesUrl]


\* parseVersion: v.split('.').map(p => parseInt(p) || 0), then
\* parts[0] * 10000 + parts[1] * 100 + parts[2]; a missing part is undefined, and
\* arithmetic on undefined gives NaN.
parseVersion(v) ==
    LET parts == Split(v, ".")
        part(k) == IF k <= Len(parts) THEN OrZero(ParseInt(parts[k])) ELSE NaN
    IN Add(Add(Mul(part(1), 10000), Mul(part(2), 100)), part(3))

\* The stable path once the releases endpoint answered with a release object.
StableResolved(currentVersion, release, prev) ==
    LET latestStable == IF release.hasTag THEN ReplaceFirst(release.tag_name, "v") ELSE Undefined
        cleanCurrent == Split(currentVersion, "-")[1]
        updateAvailable ==
            /\ release.hasTag /\ latestStable # <<>> /\ currentVersion # <<>>
            /\ Greater(parseVersion(latestStable), parseVersion(cleanCurrent))
    IN [prev EXCEPT
          !.latest = latestStable,
          !.updateAvailable = updateAvailable,
          !.checkingUpdate = FALSE,
          !.releaseNotes = release.body,
          !.releaseUrl = release.html_url]

\* Mutant: the outer catch starts again from an empty record.
CheckFailedErases(prev) ==
    [prev EXCEPT !.current = <<>>, !.buildDate = <<>>, !.checkingUpdate = FALSE,
                 !.updateError = <<"Failed to check for updates">>]

\* The outer catch of checkForUpdates.
CheckFailed(prev) ==
    [prev EXCEPT !.checkingUpdate = FALSE, !.updateError = <<"Failed to check for updates">>]

(***************************************************************************)
(* The control surface: which buttons the render offers.                   *)
(***************************************************************************)
SystemdControls == {"Start Service", "Stop Service", "Restart Service", "Enable at Boot"}
DockerControls == {"Start Container", "Stop Container", "Restart Container",
                   "Create Container", "Pull BirdNET-Go Image"}

\* Mutant: the Docker controls are rendered whether or not a systemd unit exists.
OfferedAlways(ds, ss, cs) ==
    (IF ss.exists THEN {"Restart Service"} ELSE {})
    \cup (IF cs.exists THEN {"Restart Container"} ELSE {})
    \cup (IF ~cs.exists /\ cs.imagePresent THEN {"Create Container"} ELSE {})

\* Mutant: Pull Image is rendered whenever Docker is available.
OfferedPull(ds, ss, cs) ==
    IF ss.exists THEN {"Restart Service"}
    ELSE (IF ~cs.exists /\ cs.imagePresent THEN {"Create Container"} ELSE {})
         \cup (IF ds.available THEN {"Pull BirdNET-Go Image"} ELSE {})

Offered(ds, ss, cs) ==
    (IF ss.exists
     THEN (IF ~ss.running THEN {"Start Service"} ELSE {})
          \cup (IF ss.running THEN {"Stop Service"} ELSE {})
          \cup {"Restart Service"}
          \cup (IF ~ss.enabled THEN {"Enable at Boot"} ELSE {})
     ELSE {})
    \cup
    (IF ~ss.exists
     THEN (IF cs.exists /\ ~cs.running THEN {"Start Container"} ELSE {})
          \cup (IF cs.exists /\ cs.running THEN {"Stop Container"} ELSE {})
          \cup (IF cs.exists THEN {"Restart Container"} ELSE {})
          \cup (IF ~cs.exists /\ cs.imagePresent THEN {"Create Container"} ELSE {})
          \cup (IF ~cs.imagePresent /\ ds.available THEN {"Pull BirdNET-Go Image"} ELSE {})
     ELSE {})

OfferedNow == Offered(dockerStatus, systemdStatus, containerStatus)

(***************************************************************************)
(* refreshStatus. An invocation holds the fetchHealthStatus its closure    *)
(* captured, that is the running flags of the render that created it       *)
(* (gate), the probes it has run so far (steps) and who awaits it (owner:  *)
(* nobody awaits the ones the effect or the Refresh button start).         *)
(***************************************************************************)
RefreshOrder == <<"docker", "systemd", "app", "health">>

\* The spawn calls a probe reaches: an await that rejects skips the rest of its try
\* block.
dockerIssued(ver) ==
    <<"docker --version">> \o (IF ver.ok THEN <<"systemctl is-active docker">> ELSE <<>>)

systemdIssued(files) ==
    <<"systemctl list-unit-files">> \o
    (IF files.ok /\ Includes(files.out, <<"birdnet-go.service">>)
     THEN <<"systemctl is-enabled", "systemctl is-active">> ELSE <<>>)

appIssued(images) ==
    <<"docker images">> \o (IF images.ok THEN <<"curl health", "docker ps">> ELSE <<>>)

(***************************************************************************)
(* The polling effects. Each is a useEffect that sets an interval when its *)
(* condition holds and returns the clearInterval as its cleanup; React runs *)
(* the cleanup and the effect again when a dependency changed. The effects *)
(* run with the render that follows the state change.                      *)
(***************************************************************************)
Kinds == {"logs", "health", "appLogs"}

Enabling(k, cs, sel) ==
    IF k = "appLogs" THEN cs.running /\ sel # <<>> ELSE cs.running

Deps(k, cs, ss, sel) ==
    CASE k = "logs" -> <<cs.running, cs.exists, cs.containerId, FALSE, <<>> >>
      [] k = "health" -> <<cs.running, FALSE, <<>>, ss.running, <<>> >>
      [] OTHER -> <<cs.running, FALSE, <<>>, FALSE, sel>>

\* Mutant: the effect returns no cleanup.
CleanupNever(k, n) == n

Cleanup(k, n) == IF Enabling(k, containerStatus, selectedLogFile) THEN n - 1 ELSE n

\* The timeout of the mount effect has no dependencies: it is never set again.
MountTimer == "updateCheck"

RunEffects(cs, ss, sel) ==
    [k \in DOMAIN timers |->
        IF k \notin Kinds
             \/ Deps(k, cs, ss, sel) = Deps(k, containerStatus, systemdStatus, selectedLogFile)
        THEN timers[k]
        ELSE Cleanup(k, timers[k]) + (IF Enabling(k, cs, sel) THEN 1 ELSE 0)]

InitView ==
    /\ containerLogs = <<>>
    /\ selectedLogFile = <<"analysis.log">>
    /\ appLogs = <<>>
    /\ logLevelFilter = <<"a", "l", "l">>
    /\ logSearchText = <<>>
    /\ displayed = <<>>

IdleControl == [pc |-> "idle", action |-> "none", outcome |-> "none", argv |-> <<>>,
                gate |-> FALSE]

InitControl == control = IdleControl /\ restarting = FALSE

\* The invocations in progress are kept in the order they started; one that ends
\* leaves the sequence.
RemoveAt(q, i) == SubSeq(q, 1, i - 1) \o SubSeq(q, i + 1, Len(q))

NewTask(gate) == [pc |-> "docker", gate |-> gate, steps |-> <<>>, owner |-> "ui"]

\* useEffect(() => { refreshStatus(); }, [refreshStatus]): refreshStatus is a new
\* function whenever containerStatus.running or systemdStatus.running changed.
Retriggers(cs, ss) ==
    <<cs.running, ss.running>> # <<containerStatus.running, systemdStatus.running>>

\* Task i moves to pc `next` having run `step`; if the running flags changed, the
\* effect starts another refreshStatus, which begins by setLoading(true).
Advance(i, step, next, cs, ss) ==
    LET moved == [refresh EXCEPT ![i].pc = next, ![i].steps = Append(@, step)]
    IN IF Retriggers(cs, ss)
       THEN /\ Len(refresh) < MaxRefresh
            /\ refresh' = Append(moved, NewTask(cs.running \/ ss.running))
            /\ loading' = TRUE
       ELSE /\ refresh' = moved
            /\ loading' = loading

Rejected(i) == refresh' = [refresh EXCEPT ![i].pc = "threw"]

RefreshClick ==
    /\ Len(refresh) < MaxRefresh
    /\ refresh' = Append(refresh, NewTask(containerStatus.running \/ systemdStatus.running))
    /\ loading' = TRUE
    /\ UNCHANGED <<hostVars, dockerStatus, systemdStatus, containerStatus,
                   healthStatus, versionInfo, upgrading, upgrade, check, lastProbe,
                   lastCheck, alerts, cmdLog, issued, timers, viewVars, controlVars>>

RefreshDocker(i) ==
    /\ i <= Len(refresh) /\ refresh[i].pc = "docker"
    /\ LET r == checkDockerStatus(DockerVersionResult, DockerActiveResult)
       IN IF r.threw
            THEN Rejected(i) /\ UNCHANGED <<dockerStatus, loading>>
            ELSE /\ dockerStatus' = r.value
                 /\ Advance(i, "docker", "systemd", containerStatus, systemdStatus)
    /\ issued' = [issued EXCEPT !.docker = dockerIssued(DockerVersionResult)]
    /\ UNCHANGED <<hostVars, systemdStatus, containerStatus, healthStatus,
                   versionInfo, upgrading, upgrade, check, lastProbe, lastCheck, alerts, cmdLog,
                   timers, viewVars, controlVars>>

RefreshSystemd(i) ==
    /\ i <= Len(refresh) /\ refresh[i].pc = "systemd"
    /\ LET r == checkSystemdStatus(UnitFilesResult, UnitEnabledResult, UnitActiveResult)
       IN IF r.threw
            THEN Rejected(i) /\ UNCHANGED <<systemdStatus, loading, timers>>
            ELSE /\ systemdStatus' = r.value
                 /\ timers' = RunEffects(containerStatus, r.value, selectedLogFile)
                 /\ Advance(i, "systemd", "app", containerStatus, r.value)
    /\ issued' = [issued EXCEPT !.systemd = systemdIssued(UnitFilesResult)]
    /\ UNCHANGED <<hostVars, dockerStatus, containerStatus, healthStatus,
                   versionInfo, upgrading, upgrade, check, lastProbe, lastCheck, alerts, cmdLog,
                   viewVars, controlVars>>

RefreshApp(i) ==
    /\ i <= Len(refresh) /\ refresh[i].pc = "app"
    /\ LET r == checkBirdNetGoStatus(ImagesResult, HealthResult, PsResult)
       IN /\ lastProbe' = [images |-> ImagesResult, health |-> HealthResult, ps |-> PsResult]
          /\ IF r.threw
               THEN Rejected(i) /\ UNCHANGED <<containerStatus, loading, timers>>
               ELSE /\ containerStatus' = r.value
                    /\ timers' = RunEffects(r.value, systemdStatus, selectedLogFile)
                    /\ Advance(i, "app", "health", r.value, systemdStatus)
    /\ issued' = [issued EXCEPT !.app = appIssued(ImagesResult)]
    /\ UNCHANGED <<hostVars, dockerStatus, systemdStatus, healthStatus,
                   versionInfo, upgrading, upgrade, check, lastCheck, alerts, cmdLog,
                   viewVars, controlVars>>

\* The handler goes on after `await refreshStatus()`.
ControlSettles(owner) ==
    IF owner = "control"
    THEN /\ control' = [control EXCEPT !.pc = "idle", !.outcome = "done"]
         /\ restarting' = FALSE
    ELSE UNCHANGED controlVars

FreeChecks == {i \in 1..MaxChecks : check[i].pc = "idle"}

\* upgradeBirdNetGo after `await refreshStatus()`: checkForUpdates is called and runs
\* to its first await. Whether React rendered since the health fetch stored its
\* result is not determined, so versionInfoRef holds the version before or after it.
UpgradeChecks(info) ==
    /\ FreeChecks # {}
    /\ \E current \in {versionInfo.current, info.current} :
         LET k == CHOOSE c \in FreeChecks : \A m \in FreeChecks : c <= m
             currentVersion == ReplaceFirst(current, "v")
         IN check' = [check EXCEPT ![k] =
                          [pc |-> IF Includes(currentVersion, NightlyWord)
                                  THEN "registry" ELSE "releases",
                           currentVersion |-> currentVersion, owner |-> "upgrade"]]
    /\ versionInfo' = [info EXCEPT !.checkingUpdate = TRUE]
    /\ upgrade' = [upgrade EXCEPT !.pc = "check", !.done = Append(@, "refreshStatus")]
    /\ cmdLog' = Append(cmdLog, << <<"checkForUpdates">> >>)

\* The last step: fetchHealthStatus, then setLoading(false); an upgrade that awaited
\* this refreshStatus goes on.
RefreshHealth(i) ==
    /\ i <= Len(refresh) /\ refresh[i].pc = "health"
    /\ LET r == fetchHealthStatus(refresh[i].gate, HealthResult, versionInfo)
       IN IF r.threw
            THEN /\ Rejected(i)
                 /\ UNCHANGED <<healthStatus, versionInfo, loading, upgrade, check, cmdLog,
                                controlVars>>
            ELSE /\ healthStatus' = r.value.health
                 /\ refresh' = RemoveAt(refresh, i)
                 /\ loading' = FALSE
                 /\ ControlSettles(refresh[i].owner)
                 /\ IF refresh[i].owner = "upgrade"
                      THEN UpgradeChecks(r.value.info)
                      ELSE /\ versionInfo' = r.value.info
                           /\ UNCHANGED <<upgrade, check, cmdLog>>
    /\ UNCHANGED <<hostVars, dockerStatus, systemdStatus, containerStatus,
                   upgrading, lastProbe, lastCheck, alerts, issued, timers, viewVars>>

(***************************************************************************)
(* Initial state: the useState initial values, the mount effect having     *)
(* started the first refreshStatus, on any host.                           *)
(***************************************************************************)
\* nightlyTags is a list of tags where it is set: the unset field is written as the
\* list of the undefined value.
NoVersion == [current |-> <<>>, buildDate |-> <<>>, latest |-> Undefined,
              latestNightly |-> Undefined, nightlyTags |-> <<Undefined>>,
              updateAvailable |-> FALSE, checkingUpdate |-> FALSE,
              updateError |-> Undefined, releaseNotes |-> Undefined,
              releaseUrl |-> Undefined]

NoProbe == [images |-> Failed, health |-> [ok |-> FALSE, out |-> NoPayload("down")], ps |-> Failed]

\* An upgrade run holds what its closure captured (imageName from versionInfo,
\* systemdStatus.exists, containerStatus.containerId, the refreshStatus of its
\* render), the inspected configuration, the steps that completed (done), and how it
\* ended.
IdleUpgrade == [pc |-> "idle", run |-> 0, outcome |-> "none", failedAt |-> "none",
                imageName |-> <<>>, systemdExists |-> FALSE, containerId |-> Undefined,
                gate |-> FALSE, config |-> ConfigBare, done |-> <<>>]

NoRelease == [hasTag |-> FALSE, tag_name |-> <<>>, body |-> Undefined, html_url |-> Undefined]

NoCheck == [kind |-> "none", current |-> <<>>, versions |-> <<>>, release |-> NoRelease,
            answer |-> "none"]

IdleCheck == [pc |-> "idle", currentVersion |-> <<>>, owner |-> "ui"]

InitHost ==
    /\ hostDocker \in {"absent", "inactive", "active"}
    /\ hostUnit \in Units
    /\ \E dc \in DockerContents :
         /\ hostDocker = "absent" => dc.containers = <<>> /\ dc.images = <<>>
         /\ hostImages = dc.images
         /\ hostContainers = dc.containers
    /\ hostHealth \in HealthAnswers
    /\ hostFaults \in FaultSets
    /\ hostConfig = ConfigFull
    /\ hostLog = <<>>

InitState ==
    /\ dockerStatus = DockerDown
    /\ containerStatus = ContainerAbsent(FALSE)
    /\ systemdStatus = SystemdAbsent
    /\ healthStatus = NoHealth
    /\ versionInfo = NoVersion
    /\ loading = TRUE
    /\ upgrading = FALSE
    /\ upgrade = IdleUpgrade
    /\ check = [i \in 1..MaxChecks |-> IdleCheck]
    /\ lastProbe = NoProbe
    /\ lastCheck = NoCheck
    /\ alerts = <<>>
    /\ cmdLog = <<>>
    /\ issued = [docker |-> <<>>, systemd |-> <<>>, app |-> <<>>, logs |-> <<>>]
    /\ timers = [k \in Kinds \cup {MountTimer} |-> IF k = MountTimer THEN 1 ELSE 0]
    /\ InitView
    /\ InitControl

Init ==
    /\ InitHost
    /\ InitState
    /\ refresh = <<NewTask(FALSE)>>

Next ==
    \/ RefreshClick
    \/ \E i \in 1..MaxRefresh : RefreshDocker(i)
    \/ \E i \in 1..MaxRefresh : RefreshSystemd(i)
    \/ \E i \in 1..MaxRefresh : RefreshApp(i)
    \/ \E i \in 1..MaxRefresh : RefreshHealth(i)

Spec == Init /\ [][Next]_vars

(***************************************************************************)
(* checkForUpdates. What the registry and the releases endpoint answer is  *)
(* not under the dashboard's control: any answer of the pools can arrive.  *)
(***************************************************************************)
D20250901 == <<"2", "0", "2", "5", "0", "9", "0", "1">>

TagAug == NightlyDash \o <<"2", "0", "2", "5", "0", "8", "3", "1">>
TagSep == NightlyDash \o D20250901
TagSepBuild == NightlyDash \o D20250901 \o <<"-", "2">>
TagZero == NightlyDash \o <<"0", "0", "0", "0", "0", "0", "0", "0">>
TagShort == NightlyDash \o <<"2", "0", "2", "5">>
TagLatest == <<"l", "a", "t", "e", "s", "t">>

Tagged(tags) == [hasTags |-> TRUE, tags |-> tags]
Untagged == [hasTags |-> FALSE, tags |-> <<>>]

PackageVersions ==
    { Untagged, Tagged(<<TagAug, TagLatest>>), Tagged(<<TagSep, TagSepBuild>>),
      Tagged(<<TagSepBuild, TagAug, TagSep>>), Tagged(<<TagShort, TagZero>>) }

RECURSIVE SeqsUpTo(_, _)
SeqsUpTo(S, n) ==
    IF n = 0 THEN { <<>> }
    ELSE SeqsUpTo(S, n - 1) \cup { Append(q, x) : q \in SeqsUpTo(S, n - 1), x \in S }

Answer(kind, versions, release) == [kind |-> kind, versions |-> versions, release |-> release]

RegistryAnswers ==
    { Answer(k, <<>>, NoRelease) : k \in {"failed", "empty", "garbage", "object"} }
    \cup { Answer("array", vs, NoRelease) : vs \in SeqsUpTo(PackageVersions, MaxVersions) }

Release(tag) == [hasTag |-> TRUE, tag_name |-> tag, body |-> <<"notes">>,
                 html_url |-> <<"https://github.com/tphakala/birdnet-go/releases">>]

V120 == <<"1", ".", "2", ".", "0">>
V130 == <<"1", ".", "3", ".", "0">>
V200 == <<"2", ".", "0", ".", "0">>
V13 == <<"1", ".", "3">>
V12 == <<"1", ".", "2">>

ReleaseAnswers ==
    { Answer(k, <<>>, NoRelease) : k \in {"failed", "empty", "garbage"} }
    \cup { Answer("object", <<>>, NoRelease) }
    \cup { Answer("object", <<>>, Release(<<"v">> \o t)) : t \in {VStable, V130, V200, V13} }

CurrentVersions ==
    { V120, <<"v">> \o VStable, V12, VStable \o <<"-", "r", "c", "1">>,
      NightlyWord, TagAug \o <<"-", "5", "-", "g", "c", "2">>, TagSep }

\* checkForUpdates up to its first await: checkingUpdate is set, the current version
\* is read from versionInfoRef and the query for its kind of build is sent.
CheckStart ==
    /\ FreeChecks # {}
    /\ LET i == CHOOSE k \in FreeChecks : \A m \in FreeChecks : k <= m
           currentVersion == ReplaceFirst(versionInfo.current, "v")
           isNightly == Includes(currentVersion, NightlyWord)
       IN check' = [check EXCEPT ![i] = [pc |-> IF isNightly THEN "registry" ELSE "releases",
                                         currentVersion |-> currentVersion,
                                         owner |-> "ui"]]
    /\ versionInfo' = [versionInfo EXCEPT !.checkingUpdate = TRUE]
    /\ UNCHANGED <<hostVars, dockerStatus, systemdStatus, containerStatus, healthStatus,
                   loading, upgrading, refresh, upgrade, lastProbe, lastCheck, alerts, cmdLog,
                   issued, timers, viewVars, controlVars>>

\* The finally block of an upgrade that awaited check i.
UpgradeSettles(i) ==
    IF check[i].owner = "upgrade"
    THEN /\ upgrading' = FALSE
         /\ upgrade' = [upgrade EXCEPT !.pc = "idle", !.outcome = "done",
                                       !.done = Append(@, "checkForUpdates")]
    ELSE UNCHANGED <<upgrading, upgrade>>

\* What checkForUpdates stores when the registry query of the nightly path settles.
AfterRegistry(currentVersion, answer, prev) ==
    CASE answer.kind = "empty" -> prev
      [] answer.kind = "array" -> NightlyResolved(currentVersion, answer.versions, prev)
      [] OTHER -> NightlyFallback(prev)

\* Mutant: the answer to a check that ran against another version than the one now
\* shown is dropped.
AfterReleasesIfCurrent(currentVersion, answer, prev) ==
    IF currentVersion # ReplaceFirst(prev.current, "v") THEN [prev EXCEPT !.checkingUpdate = FALSE]
    ELSE CASE answer.kind = "empty" -> prev
           [] answer.kind = "object" -> StableResolved(currentVersion, answer.release, prev)
           [] OTHER -> CheckFailed(prev)

\* What checkForUpdates stores when the releases query of the stable path settles.
AfterReleases(currentVersion, answer, prev) ==
    CASE answer.kind = "empty" -> prev
      [] answer.kind = "object" -> StableResolved(currentVersion, answer.release, prev)
      [] OTHER -> CheckFailed(prev)

CheckRegistryDone(i) ==
    /\ check[i].pc = "registry"
    /\ \E answer \in RegistryAnswers :
         /\ versionInfo' = AfterRegistry(check[i].currentVersion, answer, versionInfo)
         /\ lastCheck' = [kind |-> "registry", current |-> check[i].currentVersion,
                          versions |-> answer.versions, release |-> NoRelease,
                          answer |-> answer.kind]
    /\ check' = [check EXCEPT ![i] = IdleCheck]
    /\ UpgradeSettles(i)
    /\ UNCHANGED <<hostVars, dockerStatus, systemdStatus, containerStatus, healthStatus,
                   loading, refresh, lastProbe, alerts, cmdLog, issued, timers, viewVars,
                   controlVars>>

CheckReleasesDone(i) ==
    /\ check[i].pc = "releases"
    /\ \E answer \in ReleaseAnswers :
         /\ versionInfo' = AfterReleases(check[i].currentVersion, answer, versionInfo)
         /\ lastCheck' = [kind |-> "releases", current |-> check[i].currentVersion,
                          versions |-> <<>>, release |-> answer.release,
                          answer |-> answer.kind]
    /\ check' = [check EXCEPT ![i] = IdleCheck]
    /\ UpgradeSettles(i)
    /\ UNCHANGED <<hostVars, dockerStatus, systemdStatus, containerStatus, healthStatus,
                   loading, refresh, lastProbe, alerts, cmdLog, issued, timers, viewVars,
                   controlVars>>

(***************************************************************************)
(* upgradeBirdNetGo. One run at a time (the buttons are disabled while      *)
(* upgrading); the function's own guards decide whether it goes on, so it   *)
(* is invoked whatever dockerStatus says. A command of the upgrade fails    *)
(* or succeeds; when it succeeds Docker and systemd do what it asks.        *)
(***************************************************************************)
NoDockerNotice == "Docker is not available. Please install Docker to upgrade BirdNET-Go."
NotRunningNotice == "Docker service is not running. Please start Docker service first."
FailedNotice == "Failed to upgrade BirdNET-Go. Please check the logs."

\* Mutant: every value passes a truthiness guard.
TruthyAlways(s) == TRUE

Truthy(s) == s # Undefined /\ s # <<>>

\* Mutant: only the availability guard.
RefusesUnavailable(ds) == ~ds.available

Refuses(ds) == ~ds.available \/ ~ds.running

RefusalNotice(ds) == IF ~ds.available THEN NoDockerNotice ELSE NotRunningNotice

ImageTag(info) ==
    IF Includes(info.current, NightlyWord)
    THEN IF Truthy(info.latestNightly) THEN info.latestNightly ELSE NightlyWord
    ELSE IF Truthy(info.latest) THEN <<"v">> \o info.latest ELSE TagLatest

ImageName(info) == <<BirdnetImage, ":">> \o ImageTag(info)

PullArgs(imageName) == << <<"docker">>, <<"pull">>, imageName >>
RestartArgs == << <<"systemctl">>, <<"restart">>, <<"birdnet-go.service">> >>
StopArgs(id) == << <<"docker">>, <<"stop">>, id >>
InspectArgs(id) == << <<"docker">>, <<"inspect">>, id >>
RmArgs(id) == << <<"docker">>, <<"rm">>, id >>

RECURSIVE HostPortArgs(_, _)
HostPortArgs(hostPorts, containerPort) ==
    IF hostPorts = <<>> THEN <<>>
    ELSE << <<"-p">>, Head(hostPorts) \o <<":">> \o Split(containerPort, "/")[1] >>
         \o HostPortArgs(Tail(hostPorts), containerPort)

RECURSIVE PortArgs(_)
PortArgs(bindings) ==
    IF bindings = <<>> THEN <<>>
    ELSE (IF Head(bindings).isArray
          THEN HostPortArgs(Head(bindings).hostPorts, Head(bindings).containerPort)
          ELSE <<>>)
         \o PortArgs(Tail(bindings))

RECURSIVE MountArgs(_)
MountArgs(mounts) ==
    IF mounts = <<>> THEN <<>>
    ELSE (IF Head(mounts).Type = "bind"
          THEN << <<"-v">>, Head(mounts).Source \o <<":">> \o Head(mounts).Destination >>
          ELSE <<>>)
         \o MountArgs(Tail(mounts))

\* Mutant: only PATH is skipped.
SkippedEnvPathOnly(env) == StartsWith(env, <<"PATH=">>)

SkippedEnv(env) == StartsWith(env, <<"PATH=">>) \/ StartsWith(env, <<"HOME=">>)

RECURSIVE EnvArgs(_)
EnvArgs(envs) ==
    IF envs = <<>> THEN <<>>
    ELSE (IF SkippedEnv(Head(envs)) THEN <<>> ELSE << <<"-e">>, Head(envs) >>)
         \o EnvArgs(Tail(envs))

createArgs(config, imageName) ==
    << <<"docker">>, <<"run">>, <<"-d">>, <<"--name">>, ReplaceFirst(config.Name, "/"),
       <<"--restart">>, <<"unless-stopped">> >>
    \o (IF config.hasPorts THEN PortArgs(config.PortBindings) ELSE <<>>)
    \o (IF config.hasMounts THEN MountArgs(config.Mounts) ELSE <<>>)
    \o (IF config.hasEnv THEN EnvArgs(config.Env) ELSE <<>>)
    \o <<imageName>>

\* What the commands do to the host when they succeed.
HasContainer(id) == \E k \in 1..Len(hostContainers) : hostContainers[k].id = id

Pulled(is, imageName) ==
    IF \E k \in 1..Len(is) : is[k] = imageName THEN is ELSE Append(is, imageName)

Stopped(cs, id) ==
    [k \in 1..Len(cs) |->
        IF cs[k].id = id THEN [cs[k] EXCEPT !.status = <<"Exited", " (0)">>] ELSE cs[k]]

Removed(cs, id) == SelectSeq(cs, LAMBDA c : c.id # id)

FreshId(id) == IF id = <<"c2">> THEN <<"c1">> ELSE <<"c2">>

Started(cs, id, imageName, name) ==
    Append(cs, Container(id, imageName, <<"Up", " 1 second">>, name))

\* The configuration of the container `docker run` creates from createArgs: named
\* volumes and unpublished ports are not carried over.
Recreated(config) ==
    [config EXCEPT !.PortBindings = SelectSeq(@, LAMBDA b : b.isArray),
                   !.Mounts = SelectSeq(@, LAMBDA m : m.Type = "bind")]

\* Mutant: the container branch is tested before the systemd branch.
AfterPullContainerFirst(u) ==
    IF Truthy(u.containerId) THEN "stop"
    ELSE IF u.systemdExists THEN "restart"
    ELSE "refresh"

\* The branch taken once the pull succeeded.
AfterPull(u) ==
    IF u.systemdExists THEN "restart"
    ELSE IF Truthy(u.containerId) THEN "stop"
    ELSE "refresh"

UpgradeFrame ==
    UNCHANGED <<hostDocker, hostHealth, hostFaults, dockerStatus, systemdStatus,
                containerStatus, healthStatus, versionInfo, check, lastProbe, lastCheck,
                issued, timers, viewVars, controlVars>>

Completed(step) == [upgrade EXCEPT !.done = Append(@, step)]

\* Mutant: the catch block logs the error and raises no notice.
ThrowsSilently(step) ==
    /\ alerts' = alerts
    /\ upgrading' = FALSE
    /\ upgrade' = [upgrade EXCEPT !.pc = "idle", !.outcome = "failed", !.failedAt = step]
    /\ UNCHANGED <<cmdLog, refresh, loading>>

\* Mutant: upgrading is cleared at the end of the try block, not in a finally.
ThrowsNoFinally(step) ==
    /\ alerts' = Append(alerts, FailedNotice)
    /\ upgrading' = upgrading
    /\ upgrade' = [upgrade EXCEPT !.pc = "idle", !.outcome = "failed", !.failedAt = step]
    /\ UNCHANGED <<cmdLog, refresh, loading>>

\* A step rejected: the catch block raises the notice, finally clears upgrading.
Throws(step) ==
    /\ alerts' = Append(alerts, FailedNotice)
    /\ upgrading' = FALSE
    /\ upgrade' = [upgrade EXCEPT !.pc = "idle", !.outcome = "failed", !.failedAt = step]
    /\ UNCHANGED <<cmdLog, refresh, loading>>

\* The next command is spawned.
Issue(u, argv, pc) ==
    /\ upgrade' = [u EXCEPT !.pc = pc]
    /\ cmdLog' = Append(cmdLog, argv)
    /\ UNCHANGED <<alerts, upgrading, refresh, loading>>

\* `await refreshStatus()`: the refreshStatus of the closure starts.
BeginRefresh(u) ==
    /\ Len(refresh) < MaxRefresh
    /\ refresh' = Append(refresh, [NewTask(u.gate) EXCEPT !.owner = "upgrade"])
    /\ loading' = TRUE
    /\ upgrade' = [u EXCEPT !.pc = "refresh"]
    /\ cmdLog' = Append(cmdLog, << <<"refreshStatus">> >>)
    /\ UNCHANGED <<alerts, upgrading>>

\* upgradeBirdNetGo up to its first await. Both upgrade buttons are disabled while
\* upgrading.
UpgradeClick ==
    /\ ~upgrading
    /\ upgrade.run < MaxUpgrades
    /\ IF Refuses(dockerStatus)
         THEN /\ alerts' = <<RefusalNotice(dockerStatus)>>
              /\ cmdLog' = <<>>
              /\ upgrade' = [IdleUpgrade EXCEPT !.run = upgrade.run + 1,
                                                !.outcome = "refused"]
              /\ upgrading' = FALSE
         ELSE /\ alerts' = <<>>
              /\ cmdLog' = <<PullArgs(ImageName(versionInfo))>>
              /\ upgrade' = [pc |-> "pull", run |-> upgrade.run + 1,
                             outcome |-> "running", failedAt |-> "none",
                             imageName |-> ImageName(versionInfo),
                             systemdExists |-> systemdStatus.exists,
                             containerId |-> containerStatus.containerId,
                             gate |-> (containerStatus.running \/ systemdStatus.running),
                             config |-> ConfigBare, done |-> <<>>]
              /\ upgrading' = TRUE
    /\ UNCHANGED <<hostVars, dockerStatus, systemdStatus, containerStatus, healthStatus,
                   versionInfo, loading, refresh, check, lastProbe, lastCheck,
                   issued, timers, viewVars, controlVars>>

UpgradePull ==
    /\ upgrade.pc = "pull"
    /\ \E ok \in BOOLEAN :
         IF ok /\ hostDocker = "active"
         THEN /\ hostImages' = Pulled(hostImages, upgrade.imageName)
              /\ CASE AfterPull(upgrade) = "restart" ->
                          Issue(Completed("pull"), RestartArgs, "restart")
                   [] AfterPull(upgrade) = "stop" ->
                          Issue(Completed("pull"), StopArgs(upgrade.containerId), "stop")
                   [] OTHER -> BeginRefresh(Completed("pull"))
         ELSE Throws("pull") /\ UNCHANGED hostImages
    /\ UNCHANGED <<hostUnit, hostContainers, hostConfig>>
    /\ UpgradeFrame

UpgradeRestart ==
    /\ upgrade.pc = "restart"
    /\ \E ok \in BOOLEAN :
         IF ok /\ hostUnit.exists
         THEN /\ hostUnit' = [hostUnit EXCEPT !.active = TRUE]
              /\ BeginRefresh(Completed("restart"))
         ELSE Throws("restart") /\ UNCHANGED hostUnit
    /\ UNCHANGED <<hostImages, hostContainers, hostConfig>>
    /\ UpgradeFrame

UpgradeStop ==
    /\ upgrade.pc = "stop"
    /\ \E ok \in BOOLEAN :
         IF ok /\ HasContainer(upgrade.containerId)
         THEN /\ hostContainers' = Stopped(hostContainers, upgrade.containerId)
              /\ Issue(Completed("stop"), InspectArgs(upgrade.containerId), "inspect")
         ELSE Throws("stop") /\ UNCHANGED hostContainers
    /\ UNCHANGED <<hostImages, hostUnit, hostConfig>>
    /\ UpgradeFrame

\* `docker inspect` and JSON.parse(configJson)[0].
UpgradeInspect ==
    /\ upgrade.pc = "inspect"
    /\ \E ok \in BOOLEAN :
         IF ok /\ HasContainer(upgrade.containerId)
         THEN Issue([Completed("inspect") EXCEPT !.config = hostConfig],
                    RmArgs(upgrade.containerId), "rm")
         ELSE Throws("inspect")
    /\ UNCHANGED <<hostImages, hostUnit, hostContainers, hostConfig>>
    /\ UpgradeFrame

\* `docker rm`, then createArgs is built and `docker run` spawned.
UpgradeRemove ==
    /\ upgrade.pc = "rm"
    /\ \E ok \in BOOLEAN :
         IF ok /\ HasContainer(upgrade.containerId)
         THEN /\ hostContainers' = Removed(hostContainers, upgrade.containerId)
              /\ Issue(Completed("rm"), createArgs(upgrade.config, upgrade.imageName), "run")
         ELSE Throws("rm") /\ UNCHANGED hostContainers
    /\ UNCHANGED <<hostImages, hostUnit, hostConfig>>
    /\ UpgradeFrame

UpgradeRun ==
    /\ upgrade.pc = "run"
    /\ \E ok \in BOOLEAN :
         IF ok
         THEN /\ hostContainers' = Started(hostContainers, FreshId(upgrade.containerId),
                                           upgrade.imageName,
                                           ReplaceFirst(upgrade.config.Name, "/"))
              /\ hostConfig' = Recreated(upgrade.config)
              /\ BeginRefresh(Completed("run"))
         ELSE Throws("run") /\ UNCHANGED <<hostContainers, hostConfig>>
    /\ UNCHANGED <<hostImages, hostUnit>>
    /\ UpgradeFrame

(***************************************************************************)
(* The dashboard at rest: every record is what the probes store on the     *)
(* present host, no refreshStatus is in progress.                          *)
(***************************************************************************)
Fetched ==
    fetchHealthStatus(containerStatus.running \/ systemdStatus.running,
                      HealthResult, NoVersion).value

SettledRecords ==
    /\ dockerStatus = checkDockerStatus(DockerVersionResult, DockerActiveResult).value
    /\ systemdStatus = checkSystemdStatus(UnitFilesResult, UnitEnabledResult, UnitActiveResult).value
    /\ containerStatus = checkBirdNetGoStatus(ImagesResult, HealthResult, PsResult).value
    /\ lastProbe = [images |-> ImagesResult, health |-> HealthResult, ps |-> PsResult]
    /\ healthStatus = Fetched.health
    /\ loading = FALSE
    /\ refresh = <<>>
    /\ upgrading = FALSE
    /\ upgrade = IdleUpgrade
    /\ check = [i \in 1..MaxChecks |-> IdleCheck]
    /\ lastCheck = NoCheck
    /\ alerts = <<>>
    /\ cmdLog = <<>>
    /\ issued = [docker |-> dockerIssued(DockerVersionResult),
                 systemd |-> systemdIssued(UnitFilesResult),
                 app |-> appIssued(ImagesResult), logs |-> <<>>]
    /\ InitView
    /\ timers = [k \in Kinds |-> IF Enabling(k, containerStatus, selectedLogFile) THEN 1 ELSE 0]
    /\ InitControl

Settled == SettledRecords /\ versionInfo = Fetched.info

\* The update check, started on a dashboard at rest that runs any of the versions.
InitVersion ==
    /\ hostDocker = "active"
    /\ hostUnit \in {u \in Units : ~u.exists}
    /\ hostImages = <<NightlyImage>>
    /\ hostContainers = <<CtUp>>
    /\ hostConfig = ConfigFull
    /\ hostHealth \in {NoPayload("down")} \cup {Payload("healthy", v) : v \in CurrentVersions}
    /\ hostFaults = {}
    /\ hostLog = <<>>
    /\ Settled

NextVersion ==
    \/ CheckStart
    \/ \E i \in 1..MaxChecks : CheckRegistryDone(i)
    \/ \E i \in 1..MaxChecks : CheckReleasesDone(i)

SpecVersion == InitVersion /\ [][NextVersion]_vars

\* curl runs with -m 10: every query that was sent returns.
SpecVersionFair ==
    /\ SpecVersion
    /\ WF_check(\E i \in 1..MaxChecks : CheckRegistryDone(i))
    /\ WF_check(\E i \in 1..MaxChecks : CheckReleasesDone(i))

\* What versionInfo holds on a dashboard at rest: the fetched version alone, or also
\* what an update check that found a newer release stored.
KnownVersions(info) ==
    { info,
      IF Includes(info.current, NightlyWord)
      THEN NightlyResolved(ReplaceFirst(info.current, "v"), <<Tagged(<<TagSep>>)>>, info)
      ELSE StableResolved(ReplaceFirst(info.current, "v"), Release(<<"v">> \o V130), info) }

\* The upgrade, invoked on a dashboard at rest.
InitUpgrade ==
    /\ hostDocker \in {"absent", "inactive", "active"}
    /\ hostUnit \in {u \in Units : u.exists = u.active}
    /\ \E dc \in DockerContents :
         /\ hostDocker = "absent" => dc.containers = <<>> /\ dc.images = <<>>
         /\ dc.containers # <<CtDev>>
         /\ hostImages = dc.images
         /\ hostContainers = dc.containers
    /\ hostConfig \in Configs
    /\ hostHealth \in {NoPayload("down"), Payload("healthy", VStable), Payload("healthy", TagAug)}
    /\ hostFaults = {}
    /\ hostLog = <<>>
    /\ SettledRecords
    /\ versionInfo \in KnownVersions(Fetched.info)

NextUpgrade ==
    \/ UpgradeClick
    \/ UpgradePull
    \/ UpgradeRestart
    \/ UpgradeStop
    \/ UpgradeInspect
    \/ UpgradeRemove
    \/ UpgradeRun
    \/ \E i \in 1..MaxRefresh : RefreshDocker(i)
    \/ \E i \in 1..MaxRefresh : RefreshSystemd(i)
    \/ \E i \in 1..MaxRefresh : RefreshApp(i)
    \/ \E i \in 1..MaxRefresh : RefreshHealth(i)
    \/ \E i \in 1..MaxChecks : CheckRegistryDone(i)
    \/ \E i \in 1..MaxChecks : CheckReleasesDone(i)

SpecUpgrade == InitUpgrade /\ [][NextUpgrade]_vars

(***************************************************************************)
(* The application log view. Text is a sequence of characters, so that the *)
(* case conversions and the substring search are computed.                 *)
(***************************************************************************)
LowerLetters == <<"a", "b", "c", "d", "e", "f", "g", "h", "i", "j", "k", "l", "m",
                  "n", "o", "p", "q", "r", "s", "t", "u", "v", "w", "x", "y", "z">>
UpperLetters == <<"A", "B", "C", "D", "E", "F", "G", "H", "I", "J", "K", "L", "M",
                  "N", "O", "P", "Q", "R", "S", "T", "U", "V", "W", "X", "Y", "Z">>

Recase(s, from, to) ==
    [i \in 1..Len(s) |->
        IF \E n \in 1..Len(from) : from[n] = s[i]
        THEN to[CHOOSE n \in 1..Len(from) : from[n] = s[i]]
        ELSE s[i]]

toUpperCase(s) == Recase(s, LowerLetters, UpperLetters)
toLowerCase(s) == Recase(s, UpperLetters, LowerLetters)

\* A LogEntry is the object JSON.parse made of a line: its properties in the order
\* of the line, each <<key, value>>.
Field(log, key) ==
    IF \E i \in 1..Len(log) : log[i][1] = key
    THEN log[CHOOSE i \in 1..Len(log) : log[i][1] = key][2]
    ELSE Undefined

RECURSIVE StringifyFrom(_, _)
StringifyFrom(log, i) ==
    IF i > Len(log) THEN <<>>
    ELSE (IF i > 1 THEN <<",">> ELSE <<>>)
         \o <<"\"">> \o log[i][1] \o <<"\"", ":", "\"">> \o log[i][2] \o <<"\"">>
         \o StringifyFrom(log, i + 1)

\* JSON.stringify(log)
Stringify(log) == <<"{">> \o StringifyFrom(log, 1) \o <<"}">>

AllLevels == <<"a", "l", "l">>
KeyLevel == <<"l", "e", "v", "e", "l">>
KeyMsg == <<"m", "s", "g">>

\* The callback of appLogs.filter, searching the given text of the entry.
Shown(log, level, text, searched) ==
    LET logLevel == Field(log, KeyLevel)
        upper == IF logLevel = Undefined THEN Undefined ELSE toUpperCase(logLevel)
    IN IF level # AllLevels /\ upper # toUpperCase(level) THEN FALSE
       ELSE IF text # <<>> /\ ~Includes(toLowerCase(searched), toLowerCase(text)) THEN FALSE
       ELSE TRUE

RECURSIVE filteredLogsMsgOnly(_, _, _)
filteredLogsMsgOnly(logs, level, text) ==
    IF logs = <<>> THEN <<>>
    ELSE (IF Shown(Head(logs), level, text, Field(Head(logs), KeyMsg))
          THEN <<Head(logs)>> ELSE <<>>)
         \o filteredLogsMsgOnly(Tail(logs), level, text)

RECURSIVE filteredLogs(_, _, _)
filteredLogs(logs, level, text) ==
    IF logs = <<>> THEN <<>>
    ELSE (IF Shown(Head(logs), level, text, Stringify(Head(logs)))
          THEN <<Head(logs)>> ELSE <<>>)
         \o filteredLogs(Tail(logs), level, text)

\* The lines of the log file: JSON objects, and lines JSON.parse throws on.
LevelError == <<"E", "R", "R", "O", "R">>
EntryError == << <<KeyLevel, LevelError>>, <<KeyMsg, <<"d", "b">> >> >>
EntryInfo  == << <<KeyLevel, <<"i", "n", "f", "o">> >>, <<KeyMsg, <<"o", "k">> >>,
                 << <<"s", "p", "e", "c", "i", "e", "s">>, <<"O", "w", "l">> >> >>
EntryDebug == << <<KeyLevel, <<"D", "E", "B", "U", "G">> >>, <<KeyMsg, <<"o", "w", "l">> >> >>
EntryBare  == << <<KeyMsg, <<"E", "r", "r">> >> >>
Torn == [parses |-> FALSE, value |-> <<>>]

LogLines == {[parses |-> TRUE, value |-> e] :
                e \in {EntryError, EntryInfo, EntryDebug, EntryBare}} \cup {Torn}

MaxLogLines == 3

LevelFilters == {AllLevels, LevelError, <<"W", "A", "R", "N">>,
                 <<"I", "N", "F", "O">>, <<"D", "E", "B", "U", "G">>}

SearchTexts == {<<>>, <<"O", "W">>, <<"e", "r", "r">>}

\* tail -n 500: the last lines of the file.
TailLines == 500
LastLines(lines, n) == IF Len(lines) <= n THEN lines ELSE SubSeq(lines, Len(lines) - n + 1, Len(lines))

\* What spawn(['tail', '-n', '500', logPath]) resolves with, or its rejection.
TailResult(ok) == IF ok THEN Ok(LastLines(hostLog, TailLines)) ELSE Failed

\* Mutant: the parsed lines in the order of the file.
RECURSIVE ParsedInOrder(_)
ParsedInOrder(lines) ==
    IF lines = <<>> THEN <<>>
    ELSE (IF Head(lines).parses THEN <<Head(lines).value>> ELSE <<>>)
         \o ParsedInOrder(Tail(lines))

RECURSIVE ReverseParsed(_)
ReverseParsed(lines) ==
    IF lines = <<>> THEN <<>>
    ELSE ReverseParsed(Tail(lines))
         \o (IF Head(lines).parses THEN <<Head(lines).value>> ELSE <<>>)

\* fetchAppLogs, the callback of the 3 s timer: the lines that parse, newest first;
\* an empty list when tail fails.
fetchAppLogs(result) ==
    IF result.ok
    THEN ReverseParsed(result.out)
    ELSE <<>>

AppLogTick ==
    /\ timers["appLogs"] > 0
    /\ IF selectedLogFile = <<>>
         THEN UNCHANGED <<appLogs, displayed>>
         ELSE \E ok \in BOOLEAN :
                /\ appLogs' = fetchAppLogs(TailResult(ok))
                /\ displayed' = filteredLogs(appLogs', logLevelFilter, logSearchText)
    /\ UNCHANGED <<hostVars, dockerStatus, systemdStatus, containerStatus, healthStatus,
                   versionInfo, loading, upgrading, refresh, upgrade, check, lastProbe,
                   lastCheck, alerts, cmdLog, issued, timers, containerLogs, selectedLogFile,
                   hostLog, logLevelFilter, logSearchText, controlVars>>

ViewFrame ==
    UNCHANGED <<hostVars, dockerStatus, systemdStatus, containerStatus, healthStatus,
                versionInfo, loading, upgrading, refresh, upgrade, check, lastProbe,
                lastCheck, alerts, cmdLog, issued, timers, containerLogs, selectedLogFile, hostLog,
                appLogs, controlVars>>

setLogLevelFilter(level) ==
    /\ logLevelFilter' = level
    /\ displayed' = filteredLogs(appLogs, level, logSearchText)
    /\ UNCHANGED logSearchText
    /\ ViewFrame

setLogSearchText(text) ==
    /\ logSearchText' = text
    /\ displayed' = filteredLogs(appLogs, logLevelFilter, text)
    /\ UNCHANGED logLevelFilter
    /\ ViewFrame

\* The log view of a dashboard at rest whose container runs.
InitLogs ==
    /\ hostDocker = "active"
    /\ hostUnit \in {u \in Units : ~u.exists}
    /\ hostImages = <<NightlyImage>>
    /\ hostContainers = <<CtUp>>
    /\ hostConfig = ConfigFull
    /\ hostHealth = Payload("healthy", VStable)
    /\ hostFaults = {}
    /\ hostLog \in SeqsUpTo(LogLines, MaxLogLines)
    /\ Settled

NextLogs ==
    \/ AppLogTick
    \/ \E level \in LevelFilters : setLogLevelFilter(level)
    \/ \E text \in SearchTexts : setLogSearchText(text)

SpecLogs == InitLogs /\ [][NextLogs]_vars

(***************************************************************************)
(* The polling timers. A timer's callback runs while the timer is live;    *)
(* what it fetches is stored when the command settles. Outside the         *)
(* dashboard the container, the unit or Docker may stop at any time.       *)
(***************************************************************************)
LogsResult == IF hostDocker # "absent" THEN Ok(<<"log line", "\n">>) ELSE Failed

\* Mutant: the fetched output is added to the buffer.
fetchLogsAppends(cs, result) ==
    IF ~cs.exists \/ ~Truthy(cs.containerId) THEN <<>>
    ELSE IF result.ok THEN containerLogs \o result.out
    ELSE <<"Error fetching logs">>

fetchLogs(cs, result) ==
    IF ~cs.exists \/ ~Truthy(cs.containerId) THEN <<>>
    ELSE IF result.ok THEN result.out
    ELSE <<"Error fetching logs">>

\* The command fetchLogs spawns: none when it returns early.
logsIssued(cs) ==
    IF ~cs.exists \/ ~Truthy(cs.containerId) THEN <<>> ELSE <<"docker logs --tail 200">>

PollFrame ==
    UNCHANGED <<hostVars, dockerStatus, systemdStatus, containerStatus, loading, upgrading,
                refresh, upgrade, check, lastProbe, lastCheck, alerts, cmdLog,
                timers, selectedLogFile, hostLog, logLevelFilter, logSearchText,
                controlVars>>

\* One run of fetchLogs with the containerStatus of the present render.
FetchLogs ==
    /\ containerLogs' = fetchLogs(containerStatus, LogsResult)
    /\ issued' = [issued EXCEPT !.logs = logsIssued(containerStatus)]
    /\ UNCHANGED <<healthStatus, versionInfo, appLogs, displayed>>
    /\ PollFrame

\* setInterval(fetchLogs, 5000)
LogTick ==
    /\ timers["logs"] > 0
    /\ FetchLogs

\* The Refresh Logs button of the container log card, rendered while
\* containerStatus.exists.
fetchLogsClick ==
    /\ containerStatus.exists
    /\ FetchLogs

\* useEffect(() => { fetchLogs() }, [fetchLogs]): fetchLogs runs again after a render
\* in which containerStatus.exists or containerStatus.containerId changed. Which
\* render it follows is not recorded: the fetch may run whenever it would run again.
LogsEffect == FetchLogs

\* setInterval(fetchHealthStatus, 10000)
HealthTick ==
    /\ timers["health"] > 0
    /\ LET r == fetchHealthStatus(containerStatus.running \/ systemdStatus.running,
                                  HealthResult, versionInfo).value
       IN healthStatus' = r.health /\ versionInfo' = r.info
    /\ UNCHANGED <<containerLogs, appLogs, displayed, issued>>
    /\ PollFrame

LogFiles == {<<"analysis.log">>, <<"birdweather.log">>}

\* The log file select: the timer effect runs again for the new file, and the
\* effect that fetches the selected file's lines.
setSelectedLogFile(file) ==
    /\ file # selectedLogFile
    /\ selectedLogFile' = file
    /\ timers' = RunEffects(containerStatus, systemdStatus, file)
    /\ IF containerStatus.running
         THEN \E ok \in BOOLEAN :
                /\ appLogs' = fetchAppLogs(TailResult(ok))
                /\ displayed' = filteredLogs(appLogs', logLevelFilter, logSearchText)
         ELSE UNCHANGED <<appLogs, displayed>>
    /\ UNCHANGED <<hostVars, dockerStatus, systemdStatus, containerStatus, healthStatus,
                   versionInfo, loading, upgrading, refresh, upgrade, check, lastProbe,
                   lastCheck, alerts, cmdLog, issued, containerLogs, hostLog,
                   logLevelFilter, logSearchText, controlVars>>

DashboardVars ==
    <<dockerStatus, systemdStatus, containerStatus, healthStatus, versionInfo, loading,
      upgrading, refresh, upgrade, check, lastProbe, lastCheck, alerts, cmdLog, issued,
      timers, viewVars, controlVars>>

HostContainerStops ==
    /\ hostContainers = <<CtUp>>
    /\ hostContainers' = <<CtExited>>
    /\ hostHealth' = NoPayload("down")
    /\ UNCHANGED <<hostDocker, hostUnit, hostImages, hostFaults, hostConfig, DashboardVars>>

HostUnitStops ==
    /\ hostUnit.active
    /\ hostUnit' = [hostUnit EXCEPT !.active = FALSE]
    /\ UNCHANGED <<hostDocker, hostImages, hostContainers, hostHealth, hostFaults,
                   hostConfig, DashboardVars>>

HostDockerStops ==
    /\ hostDocker = "active"
    /\ hostDocker' \in {"inactive", "absent"}
    /\ hostHealth' = NoPayload("down")
    /\ UNCHANGED <<hostUnit, hostImages, hostContainers, hostFaults, hostConfig,
                   DashboardVars>>

\* A dashboard at rest on a host whose container runs.
InitPoll ==
    /\ hostDocker = "active"
    /\ hostUnit \in {u \in Units : u.exists = u.active}
    /\ hostImages = <<NightlyImage>>
    /\ hostContainers = <<CtUp>>
    /\ hostConfig = ConfigFull
    /\ hostHealth = Payload("healthy", VStable)
    /\ hostFaults \in {{}, {"systemctl is-active docker"}}
    /\ hostLog = <<[parses |-> TRUE, value |-> EntryError]>>
    /\ Settled

RefreshStep ==
    \/ \E i \in 1..MaxRefresh : RefreshDocker(i)
    \/ \E i \in 1..MaxRefresh : RefreshSystemd(i)
    \/ \E i \in 1..MaxRefresh : RefreshApp(i)
    \/ \E i \in 1..MaxRefresh : RefreshHealth(i)

NextPoll ==
    \/ RefreshClick
    \/ RefreshStep
    \/ LogTick
    \/ fetchLogsClick
    \/ LogsEffect
    \/ HealthTick
    \/ AppLogTick
    \/ \E file \in LogFiles : setSelectedLogFile(file)
    \/ HostContainerStops
    \/ HostUnitStops
    \/ HostDockerStops

SpecPoll == InitPoll /\ [][NextPoll]_vars

\* The dashboard from its mount on a host whose container runs, left alone by the
\* user: live timers fire and awaited commands settle.
InitUnattended ==
    /\ hostDocker = "active"
    /\ hostUnit \in {u \in Units : u.exists = u.active}
    /\ hostImages = <<NightlyImage>>
    /\ hostContainers = <<CtUp>>
    /\ hostConfig = ConfigFull
    /\ hostHealth = Payload("healthy", VStable)
    /\ hostFaults = {}
    /\ hostLog = <<[parses |-> TRUE, value |-> EntryError]>>
    /\ InitState
    /\ refresh = <<NewTask(FALSE)>>

NextUnattended ==
    \/ RefreshStep
    \/ LogTick
    \/ HealthTick
    \/ AppLogTick
    \/ HostContainerStops
    \/ HostUnitStops

\* A refreshStatus in progress has a command in flight.
RefreshPending == \E i \in 1..Len(refresh) : refresh[i].pc # "threw"

\* Weak fairness of the timers' callbacks and of the refreshStatus steps, the latter
\* with its enabling condition written out.
SpecUnattended ==
    /\ InitUnattended
    /\ [][NextUnattended]_vars
    /\ WF_vars(LogTick) /\ WF_vars(HealthTick) /\ WF_vars(AppLogTick)
    /\ ([]<>(~RefreshPending) \/ []<><<RefreshStep>>_vars)

(***************************************************************************)
(* The start/stop/restart handlers of the container and of the service.    *)
(* Each spawns its command and awaits refreshStatus inside one try; the    *)
(* catch writes to the console; the restart handlers set restarting around *)
(* the try.                                                                *)
(***************************************************************************)
ContainerButtons == {"Start Container", "Stop Container", "Restart Container"}
ServiceButtons == {"Start Service", "Stop Service", "Restart Service"}

ControlArgs(button, cs) ==
    CASE button = "Start Container" -> <<"docker", "start", cs.containerId>>
      [] button = "Stop Container" -> <<"docker", "stop", cs.containerId>>
      [] button = "Restart Container" -> <<"docker", "restart", cs.containerId>>
      [] button = "Start Service" -> <<"systemctl", "start", "birdnet-go.service">>
      [] button = "Stop Service" -> <<"systemctl", "stop", "birdnet-go.service">>
      [] OTHER -> <<"systemctl", "restart", "birdnet-go.service">>

ControlFrame ==
    UNCHANGED <<dockerStatus, systemdStatus, containerStatus, healthStatus, versionInfo,
                upgrading, upgrade, check, lastProbe, lastCheck, alerts, cmdLog, issued,
                timers, viewVars>>

\* A handler up to its first await.
ControlClick(button) ==
    /\ control.pc = "idle"
    /\ button \in OfferedNow
    /\ IF button \in ContainerButtons /\ ~Truthy(containerStatus.containerId)
         THEN UNCHANGED controlVars
         ELSE /\ control' = [pc |-> "spawn", action |-> button, outcome |-> "running",
                             argv |-> ControlArgs(button, containerStatus),
                             gate |-> (containerStatus.running \/ systemdStatus.running)]
              /\ restarting' = (button \in {"Restart Container", "Restart Service"})
    /\ UNCHANGED <<hostVars, loading, refresh>>
    /\ ControlFrame

\* What the command does on the host when it succeeds.
Controlled(button) ==
    /\ hostContainers' =
         IF button \in {"Start Container", "Restart Container"} THEN <<CtUp>>
         ELSE IF button = "Stop Container" THEN <<CtExited>>
         ELSE hostContainers
    /\ hostUnit' =
         IF button \in {"Start Service", "Restart Service"}
         THEN [hostUnit EXCEPT !.active = TRUE]
         ELSE IF button = "Stop Service" THEN [hostUnit EXCEPT !.active = FALSE]
         ELSE hostUnit
    /\ hostHealth' =
         IF button \in {"Stop Container", "Stop Service"} THEN NoPayload("down")
         ELSE Payload("healthy", VStable)

\* The command settles: refreshStatus is awaited, or the catch and the finally run.
ControlSpawned ==
    /\ control.pc = "spawn"
    /\ \E ok \in BOOLEAN :
         IF ok
         THEN /\ Controlled(control.action)
              /\ Len(refresh) < MaxRefresh
              /\ refresh' = Append(refresh, [NewTask(control.gate) EXCEPT !.owner = "control"])
              /\ loading' = TRUE
              /\ control' = [control EXCEPT !.pc = "refresh"]
              /\ UNCHANGED restarting
         ELSE /\ control' = [control EXCEPT !.pc = "idle", !.outcome = "failed"]
              /\ restarting' = FALSE
              /\ UNCHANGED <<hostContainers, hostUnit, hostHealth, refresh, loading>>
    /\ UNCHANGED <<hostDocker, hostImages, hostFaults, hostConfig>>
    /\ ControlFrame

\* The controls of a dashboard at rest.
InitControlled ==
    /\ hostDocker = "active"
    /\ hostUnit \in {u \in Units : u.exists = u.active}
    /\ hostImages = <<NightlyImage>>
    /\ hostContainers \in {<<CtUp>>, <<CtExited>>, <<>>}
    /\ hostConfig = ConfigFull
    /\ hostHealth \in {NoPayload("down"), Payload("healthy", VStable)}
    /\ hostFaults = {}
    /\ hostLog = <<>>
    /\ Settled

NextControl ==
    \/ \E button \in ContainerButtons \cup ServiceButtons : ControlClick(button)
    \/ ControlSpawned
    \/ RefreshStep

SpecControl == InitControlled /\ [][NextControl]_vars

(***************************************************************************)
(* Claims about the status probes, the control surface and refreshStatus.  *)
(***************************************************************************)
HealthSaysRunning(h) ==
    h.ok /\ h.out.kind = "json" /\ h.out.status \in {"healthy", "degraded"}

\* C1: whenever the application probe read a health payload whose status is healthy
\* or degraded, the ContainerStatus it stored has running = true, whatever the image
\* listing and the container listing returned and however they failed.
C1_HealthyMeansRunning ==
    HealthSaysRunning(lastProbe.health) => containerStatus.running

C8_Scenario ==
    /\ ~systemdStatus.exists
    /\ dockerStatus.available /\ dockerStatus.running
    /\ lastProbe.images.ok /\ Includes(lastProbe.images.out, <<BirdnetImage>>)
    /\ lastProbe.ps.ok /\ lastProbe.ps.out \in {PsOutput(<<>>), PsOutput(<<CtDev>>)}
    /\ ~lastProbe.health.ok

\* C8: with no systemd unit, Docker available and running, the image present, no
\* BirdNET-Go container listed and the health endpoint not answering, the probe
\* stores {exists:false, running:false, imagePresent:true} and of the container and
\* service controls only Create Container is offered.
C8_CreateOnly ==
    C8_Scenario =>
        /\ containerStatus = ContainerAbsent(TRUE)
        /\ OfferedNow = {"Create Container"}

C8_Witness ==
    /\ C8_Scenario
    /\ refresh = <<>>
    /\ lastProbe.ps.out = PsOutput(<<CtDev>>)

\* C9: while systemdStatus.exists none of the Docker container controls is offered,
\* and while it does not none of the systemd service controls is offered.
C9_ControlsExclusive ==
    /\ systemdStatus.exists => OfferedNow \cap DockerControls = {}
    /\ ~systemdStatus.exists => OfferedNow \cap SystemdControls = {}

C9_Witness ==
    /\ systemdStatus.exists
    /\ containerStatus.exists /\ ~containerStatus.imagePresent /\ dockerStatus.available
    /\ OfferedNow # {}

StepsDone(pc) ==
    CASE pc = "docker" -> 0 [] pc = "systemd" -> 1 [] pc = "app" -> 2
      [] pc = "health" -> 3 [] OTHER -> 4

C10_Sequenced ==
    \A i \in 1..Len(refresh) :
        /\ refresh[i].pc \in {"docker", "systemd", "app", "health"}
        /\ refresh[i].steps = SubSeq(RefreshOrder, 1, StepsDone(refresh[i].pc))

C10_StepFrame ==
    IF Len(refresh') < Len(refresh)
    THEN \E i \in 1..Len(refresh) :
            /\ refresh[i].pc = "health" /\ Append(refresh[i].steps, "health") = RefreshOrder
            /\ refresh' = SubSeq(refresh, 1, i - 1) \o SubSeq(refresh, i + 1, Len(refresh))
            /\ loading' = FALSE
            /\ UNCHANGED <<dockerStatus, systemdStatus, containerStatus>>
    ELSE \A i \in 1..Len(refresh) :
            /\ (refresh[i].pc = "docker" /\ refresh'[i].pc # "docker") =>
                   /\ refresh'[i].pc = "systemd"
                   /\ UNCHANGED <<systemdStatus, containerStatus, healthStatus, versionInfo>>
            /\ (refresh[i].pc = "systemd" /\ refresh'[i].pc # "systemd") =>
                   /\ refresh'[i].pc = "app"
                   /\ UNCHANGED <<dockerStatus, containerStatus, healthStatus, versionInfo>>
            /\ (refresh[i].pc = "app" /\ refresh'[i].pc # "app") =>
                   /\ refresh'[i].pc = "health"
                   /\ UNCHANGED <<dockerStatus, systemdStatus, healthStatus, versionInfo>>
            /\ refresh[i].pc = "health" => refresh'[i] = refresh[i]

\* C10: every refreshStatus runs Docker probe, systemd probe, application probe and
\* health fetch in that order and ends by setting loading = false; no probe rejects,
\* whichever commands fail, and each probe writes only its own record.
C10_RefreshIsolated == [](C10_Sequenced) /\ [][C10_StepFrame]_vars

C10_Witness ==
    /\ refresh = <<>>
    /\ lastProbe # NoProbe
    /\ hostDocker = "active" /\ "docker images" \in hostFaults
    /\ dockerStatus.running /\ ~containerStatus.imagePresent
    /\ ~loading

(***************************************************************************)
(* Claims about the update check.                                          *)
(***************************************************************************)
MatchingTags(tags) == {i \in 1..Len(tags) : MatchNightlyDate(tags[i]) # <<>>}

GreatestDate(tags) ==
    IF MatchingTags(tags) = {} THEN 0
    ELSE LET i == CHOOSE k \in MatchingTags(tags) :
                     \A m \in MatchingTags(tags) : DateOf(tags[m]) <= DateOf(tags[k])
         IN DateOf(tags[i])

\* The first-seen tag among those that carry the greatest date, `nightly` when no
\* tag matches.
NewestTag(tags) ==
    IF MatchingTags(tags) = {} THEN NightlyWord
    ELSE LET newest == {k \in MatchingTags(tags) : DateOf(tags[k]) = GreatestDate(tags)}
         IN tags[CHOOSE k \in newest : \A m \in newest : k <= m]

\* C6: on the nightly path, whatever tags the registry lists, latestNightly is the
\* first-seen tag with the numerically greatest 8-digit date (`nightly` when no tag
\* matches) and updateAvailable is (greatest tag date > date of the current version).
C6_NewestNightly ==
    (lastCheck.kind = "registry" /\ lastCheck.answer = "array") =>
        /\ versionInfo.latestNightly = NewestTag(AllTags(lastCheck.versions))
        /\ versionInfo.updateAvailable =
               (GreatestDate(AllTags(lastCheck.versions)) > DateOf(lastCheck.current))

\* The ordering the specification gives: major*10000 + minor*100 + patch, an absent
\* or non-numeric component counting as 0.
ComponentOrZero(parts, k) ==
    IF k <= Len(parts) /\ ~ParseInt(parts[k]).nan THEN ParseInt(parts[k]).n ELSE 0

VersionOrder(v) ==
    LET parts == Split(v, ".")
    IN ComponentOrZero(parts, 1) * 10000 + ComponentOrZero(parts, 2) * 100
           + ComponentOrZero(parts, 3)

\* C7: a stable check that resolves sets updateAvailable by the ordering
\* major*10000 + minor*100 + patch with absent or non-numeric components counted as
\* 0, so that `1.2` compares as `1.2.0` and latest `1.3` against current `1.2.0`
\* gives updateAvailable = true.
C7_StableOrdering ==
    (/\ lastCheck.kind = "releases" /\ lastCheck.answer = "object"
     /\ lastCheck.release.hasTag /\ lastCheck.current # <<>>) =>
        versionInfo.updateAvailable =
            (VersionOrder(ReplaceFirst(lastCheck.release.tag_name, "v"))
                 > VersionOrder(Split(lastCheck.current, "-")[1]))

(***************************************************************************)
(* Claims about the upgrade.                                               *)
(***************************************************************************)
\* The name of an entry of cmdLog: the subcommand, or the function called.
CommandName(argv) == IF Len(argv) = 1 THEN argv[1][1] ELSE argv[2][1]

Names(log) == [k \in 1..Len(log) |-> CommandName(log[k])]

IsPrefix(p, q) == Len(p) <= Len(q) /\ SubSeq(q, 1, Len(p)) = p

HasPair(argv, flag, value) ==
    \E k \in 8..(Len(argv) - 2) : argv[k] = <<flag>> /\ argv[k + 1] = value

DefaultEnv(env) == Head(env) \in {"PATH=", "HOME="}

RunPreserves(argv, config, imageName) ==
    /\ SubSeq(argv, 1, 4) = << <<"docker">>, <<"run">>, <<"-d">>, <<"--name">> >>
    /\ <<"/">> \o argv[5] = config.Name
    /\ SubSeq(argv, 6, 7) = << <<"--restart">>, <<"unless-stopped">> >>
    /\ argv[Len(argv)] = imageName
    /\ \A b \in 1..Len(config.PortBindings) :
         \A h \in 1..Len(config.PortBindings[b].hostPorts) :
            HasPair(argv, "-p", config.PortBindings[b].hostPorts[h] \o <<":">>
                                  \o <<Head(config.PortBindings[b].containerPort)>>)
    /\ \A m \in 1..Len(config.Mounts) :
         config.Mounts[m].Type = "bind" =>
            HasPair(argv, "-v", config.Mounts[m].Source \o <<":">>
                                  \o config.Mounts[m].Destination)
    /\ \A e \in 1..Len(config.Env) :
         ~DefaultEnv(config.Env[e]) => HasPair(argv, "-e", config.Env[e])
    /\ \A k \in 8..(Len(argv) - 2) : argv[k] = <<"-e">> => ~DefaultEnv(argv[k + 1])

\* C2: the `docker run` an upgrade of a standalone container issues names the old
\* container, carries --restart unless-stopped, a -p host:container for every port
\* binding, a -v source:destination for every bind mount and a -e for every
\* environment entry of the inspected container except those starting with PATH= or
\* HOME=, of which it carries none, and ends with the new image name.
C2_RunPreservesConfig ==
    \A k \in 1..Len(cmdLog) :
        CommandName(cmdLog[k]) = "run" =>
            RunPreserves(cmdLog[k], upgrade.config, upgrade.imageName)

C2_Witness ==
    /\ upgrade.outcome = "done" /\ "run" \in {upgrade.done[k] : k \in 1..Len(upgrade.done)}
    /\ upgrade.config = ConfigFull

RefusedStep ==
    /\ upgrade.pc = "idle"
    /\ ~dockerStatus.available \/ ~dockerStatus.running
    /\ <<upgrade, alerts, cmdLog, upgrading>>' # <<upgrade, alerts, cmdLog, upgrading>>

C3_RefusedStep ==
    RefusedStep =>
        /\ Len(alerts') = 1 /\ alerts'[1] \in {NoDockerNotice, NotRunningNotice}
        /\ cmdLog' = <<>>
        /\ upgrade'.pc = "idle" /\ ~upgrading'
        /\ UNCHANGED <<hostVars, dockerStatus, systemdStatus, containerStatus,
                       healthStatus, versionInfo, refresh, check>>

\* C3: upgradeBirdNetGo invoked while dockerStatus.available or dockerStatus.running
\* is false raises a notice, issues no docker or systemctl command and leaves the
\* host and the container, service and version records as they were.
C3_RefusedWithoutDocker == [][C3_RefusedStep]_vars

C3_Witness ==
    /\ upgrade.outcome = "refused" /\ Len(alerts) = 1
    /\ dockerStatus.available /\ ~dockerStatus.running

\* The order of the steps of a run, by what the dashboard knew when it started.
StepOrder(u) ==
    IF u.systemdExists
    THEN <<"pull", "restart", "refreshStatus", "checkForUpdates">>
    ELSE IF u.containerId \notin {Undefined, <<>>}
    THEN <<"pull", "stop", "inspect", "rm", "run", "refreshStatus", "checkForUpdates">>
    ELSE <<"pull", "refreshStatus", "checkForUpdates">>

\* C4: the commands of an upgrade are issued one after the other, each only once
\* every earlier one completed: pull, then restart alone when a systemd unit exists,
\* otherwise stop, inspect, rm, run; so rm never precedes the success of pull and
\* inspect, and no stop, rm or run is issued when a systemd unit exists.
C4_StrictlySequential ==
    upgrade.outcome \in {"running", "failed", "done"} =>
        /\ IsPrefix(Names(cmdLog), StepOrder(upgrade))
        /\ IsPrefix(upgrade.done, Names(cmdLog))
        /\ Len(cmdLog) <= Len(upgrade.done) + 1
        /\ upgrade.outcome = "done" => upgrade.done = StepOrder(upgrade)

C4_Witness ==
    /\ upgrade.pc = "run" /\ upgrade.done = <<"pull", "stop", "inspect", "rm">>
    /\ ~upgrade.systemdExists /\ Len(cmdLog) = 5

IsBirdnetContainer(c) == Head(c.image) = BirdnetImage

FailingStep == upgrade.outcome = "running" /\ upgrade'.outcome = "failed"

C5_FailedStep ==
    FailingStep =>
        /\ alerts' = <<FailedNotice>>
        /\ cmdLog' = cmdLog /\ refresh' = refresh /\ check' = check
        /\ upgrade'.pc = "idle" /\ ~upgrading'
        /\ upgrade'.failedAt = upgrade.pc
        /\ UNCHANGED hostVars

C5_Failed ==
    upgrade.outcome = "failed" =>
        /\ upgrade.pc = "idle" /\ alerts = <<FailedNotice>>
        /\ Names(cmdLog)[Len(cmdLog)] = upgrade.failedAt
        /\ upgrade.failedAt = "run" =>
               \A k \in 1..Len(hostContainers) : ~IsBirdnetContainer(hostContainers[k])

\* C5: when a step of the upgrade fails nothing more is run, neither a command nor
\* the refresh nor the update check, exactly one generic failure notice is raised and
\* no command undoes what was done; a failing `docker run` leaves the host without a
\* BirdNET-Go container.
C5_FailureStops == [](C5_Failed) /\ [][C5_FailedStep]_vars

C5_Witness ==
    /\ upgrade.outcome = "failed" /\ upgrade.failedAt = "run"
    /\ hostContainers = <<CtOther>>

(***************************************************************************)
(* Claims about the log view.                                              *)
(***************************************************************************)
LevelIs(log, level) ==
    \E i \in 1..Len(log) :
        /\ log[i][1] = KeyLevel
        /\ \A j \in 1..(i - 1) : log[j][1] # KeyLevel
        /\ toLowerCase(log[i][2]) = toLowerCase(level)

Kept(log) ==
    /\ logLevelFilter = AllLevels \/ LevelIs(log, logLevelFilter)
    /\ \E i \in 0..(Len(Stringify(log)) - Len(logSearchText)) :
         toLowerCase(SubSeq(Stringify(log), i + 1, i + Len(logSearchText)))
            = toLowerCase(logSearchText)

C11_Displayed ==
    /\ displayed = SelectSeq(appLogs, Kept)
    /\ appLogs = <<EntryError, EntryInfo, EntryDebug>>
         /\ logLevelFilter = LevelError /\ logSearchText = <<>>
       => displayed = <<EntryError>>

C11_AppLogsKept ==
    logLevelFilter' # logLevelFilter \/ logSearchText' # logSearchText
        => appLogs' = appLogs

\* C11: filtering never modifies appLogs; the displayed list is the order-preserving
\* subsequence of appLogs of the entries whose level is the selected level up to case
\* (every entry for 'all') and whose serialized record contains the search text up to
\* case; [ERROR, INFO, DEBUG] filtered by 'ERROR' shows exactly the ERROR entry.
C11_FilterView == [](C11_Displayed) /\ [][C11_AppLogsKept]_vars

C11_Witness ==
    /\ appLogs = <<EntryDebug, EntryInfo, EntryError>>
    /\ logLevelFilter = <<"I", "N", "F", "O">>
    /\ logSearchText = <<"O", "W">>
    /\ displayed = <<EntryInfo>>

(***************************************************************************)
(* Claims about polling.                                                   *)
(***************************************************************************)
\* C12: the status records are re-derived on every poll tick, so that a container or
\* unit that stopped outside the dashboard is eventually shown as not running without
\* any user action.
C12_ChangeReflected ==
    /\ (hostContainers = <<CtExited>>) ~> (~containerStatus.running)
    /\ (hostUnit.exists /\ ~hostUnit.active) ~> (~systemdStatus.running)

C13_OnlyWhileEnabled ==
    /\ timers["logs"] > 0 => containerStatus.running
    /\ timers["health"] > 0 => containerStatus.running
    /\ timers["appLogs"] > 0 => containerStatus.running /\ selectedLogFile # <<>>
    /\ \A k \in Kinds : timers[k] \in {0, 1}

C13_Cancelled ==
    /\ LogTick \/ HealthTick => containerStatus.running
    /\ AppLogTick => containerStatus.running /\ selectedLogFile # <<>>
    /\ containerStatus.running /\ ~containerStatus'.running
         => \A k \in Kinds : timers'[k] = 0

\* C13: the container-log and health timers exist only while containerStatus.running,
\* the application-log timer only while containerStatus.running and a log file is
\* selected; a timer is cancelled when its condition becomes false, no tick of it
\* fires afterwards, and there is at most one timer of each kind.
C13_TimersScoped == [](C13_OnlyWhileEnabled) /\ [][C13_Cancelled]_vars

C13_Witness ==
    /\ \A k \in Kinds : timers[k] = 0
    /\ ~containerStatus.running /\ containerStatus.exists
    /\ containerLogs # <<>> /\ appLogs # <<>>
    /\ selectedLogFile = <<"birdweather.log">>

\* C15: the Docker probe stores {available: true, running: the service-active output
\* is 'active', version} only when both commands succeed; if either fails the record
\* is exactly {available: false, running: false} without a version, whatever the
\* record held before.
C15_DockerRecord ==
    [][\A i \in 1..MaxRefresh :
          RefreshDocker(i) =>
             IF /\ hostDocker # "absent"
                /\ hostFaults \cap {"docker --version", "systemctl is-active docker"} = {}
             THEN dockerStatus' = [available |-> TRUE, running |-> (hostDocker = "active"),
                                   version |-> <<"Docker version 27">>]
             ELSE dockerStatus' = [available |-> FALSE, running |-> FALSE,
                                   version |-> Undefined]]_vars

C15_Witness ==
    /\ hostDocker = "absent" /\ hostFaults = {}
    /\ issued.docker = <<"docker --version">>
    /\ dockerStatus = [available |-> FALSE, running |-> FALSE, version |-> Undefined]
    /\ containerStatus.running

(***************************************************************************)
(* Claims about the end of an update check.                                *)
(***************************************************************************)
\* C14: once checkingUpdate is true and the query has returned with data, with an
\* empty body or by failing, checkingUpdate eventually becomes false.
C14_CheckEnds == versionInfo.checkingUpdate ~> ~versionInfo.checkingUpdate

(***************************************************************************)
(* Claims about the probes.                                                *)
(***************************************************************************)
UnitListed == hostUnit.exists /\ "systemctl list-unit-files" \notin hostFaults

\* C16: when the unit is absent or the list check fails the systemd probe stores
\* {exists: false, running: false, enabled: false} and issues neither the enabled nor
\* the active query; when the unit is present it stores exists: true and issues both;
\* a failing enabled query gives enabled: false and leaves the active result alone, a
\* failing active query gives running: false with status 'inactive' and leaves the
\* enabled result alone.
C16_SystemdRecord ==
    [][\A i \in 1..MaxRefresh :
          RefreshSystemd(i) =>
             IF ~UnitListed
             THEN /\ systemdStatus' = [exists |-> FALSE, running |-> FALSE,
                                       enabled |-> FALSE, status |-> Undefined]
                  /\ issued'.systemd = <<"systemctl list-unit-files">>
             ELSE /\ systemdStatus'.exists
                  /\ issued'.systemd = <<"systemctl list-unit-files", "systemctl is-enabled",
                                         "systemctl is-active">>
                  /\ systemdStatus'.enabled
                       = (hostUnit.enabled /\ "systemctl is-enabled" \notin hostFaults)
                  /\ systemdStatus'.running
                       = (hostUnit.active /\ "systemctl is-active" \notin hostFaults)
                  /\ "systemctl is-active" \in hostFaults
                       => systemdStatus'.status = <<"inactive">>]_vars

C16_Witness ==
    /\ hostUnit.exists /\ hostUnit.active /\ hostUnit.enabled
    /\ "systemctl is-enabled" \in hostFaults
    /\ issued.systemd = <<"systemctl list-unit-files", "systemctl is-enabled",
                          "systemctl is-active">>
    /\ systemdStatus.exists /\ systemdStatus.running /\ ~systemdStatus.enabled

\* C17: when the Docker probe found Docker absent, the application probe issues neither
\* the image listing nor the container listing and still reconciles the health
\* endpoint's answer.
C17_DockerSkipped ==
    [][\A i \in 1..MaxRefresh :
          RefreshApp(i) /\ ~dockerStatus.available =>
             /\ \A n \in 1..Len(issued'.app) :
                   issued'.app[n] \notin {"docker images", "docker ps"}
             /\ HealthSaysRunning(HealthResult) => containerStatus'.running]_vars

ListedStopped ==
    /\ ImagesResult.ok /\ PsResult.ok
    /\ \E n \in 1..Len(hostContainers) : hostContainers[n] = CtExited
    /\ \A n \in 1..Len(hostContainers) : hostContainers[n] \in {CtExited, CtOther}

DenotesRunning(status) ==
    /\ status # Undefined
    /\ \/ StartsWith(status, <<"Up">>)
       \/ status \in {<<"Running (non-Docker)">>,
                      <<"Running (non-Docker or custom container)">>}

\* C18: when the health endpoint reports healthy or degraded while the engine lists
\* the BirdNET-Go container with a status that does not start with 'Up', the
\* application probe stores running = true with a status string that denotes the
\* running state, and does not reject.
C18_MismatchRunning ==
    [][\A i \in 1..MaxRefresh :
          RefreshApp(i) /\ HealthSaysRunning(HealthResult) /\ ListedStopped =>
             /\ refresh'[i].pc # "threw"
             /\ containerStatus'.running
             /\ DenotesRunning(containerStatus'.status)]_vars

(***************************************************************************)
(* Claims about the control handlers.                                      *)
(***************************************************************************)
\* C19: when a start, stop or restart of the container or of the service fails, the
\* failure is raised as a notice the user has to acknowledge, and the command is not
\* issued again.
C19_FailureNoticed ==
    [][control.outcome = "running" /\ control'.outcome = "failed" =>
          /\ alerts' # alerts
          /\ control'.pc = "idle"]_vars

\* Check i ends on a registry query that failed.
RegistryFailed(i) ==
    /\ check[i].pc = "registry" /\ check'[i].pc = "idle"
    /\ lastCheck'.kind = "registry" /\ lastCheck'.answer = "failed"

C20_Step ==
    /\ \A i \in 1..MaxChecks :
          RegistryFailed(i) =>
             /\ versionInfo'.latest = <<"nightly (development build)">>
             /\ ~versionInfo'.updateAvailable
             /\ ~versionInfo'.checkingUpdate
             /\ versionInfo'.updateError = versionInfo.updateError
    /\ versionInfo'.updateError # versionInfo.updateError =>
          /\ lastCheck'.kind = "releases"
          /\ lastCheck'.answer \in {"failed", "garbage"}
          /\ versionInfo'.updateError = <<"Failed to check for updates">>
          /\ ~versionInfo'.checkingUpdate
          /\ versionInfo'.updateAvailable = versionInfo.updateAvailable

\* C20: on the nightly path a failed registry query ends the check with latest =
\* 'nightly (development build)', updateAvailable = false, checkingUpdate = false and
\* updateError untouched; updateError is set only when the check throws outside that
\* query, then with checkingUpdate = false and updateAvailable as it was.
C20_NightlyFallback == [][C20_Step]_vars

C20_Witness ==
    /\ lastCheck.kind = "registry" /\ lastCheck.answer = "failed"
    /\ versionInfo.latest = <<"nightly (development build)">>
    /\ versionInfo.latestNightly = TagSep
    /\ versionInfo.updateError = Undefined
    /\ ~versionInfo.checkingUpdate /\ ~versionInfo.updateAvailable
(***************************************************************************)
(* The version reconciler: the health timer stores the running version     *)
(* while update checks are in flight. The application may be upgraded from *)
(* the stable to the nightly build, and its endpoint may stop answering.   *)
(***************************************************************************)
HealthRank(h) ==
    IF h.kind # "json" THEN 2 ELSE IF Includes(h.version, NightlyWord) THEN 1 ELSE 0

ReconcileAnswers ==
    { Payload("healthy", V120), Payload("healthy", TagSep),
      NoPayload("down"), NoPayload("empty"), NoPayload("garbage") }

\* The endpoint answers differently from now on: a newer build, or nothing usable.
HostHealthChanges ==
    /\ \E h \in ReconcileAnswers :
         /\ HealthRank(hostHealth) < HealthRank(h)
         /\ hostHealth' = h
    /\ UNCHANGED <<hostDocker, hostUnit, hostImages, hostContainers, hostFaults, hostConfig,
                   DashboardVars>>

InitReconcile ==
    /\ hostDocker = "active"
    /\ hostUnit \in {u \in Units : ~u.exists}
    /\ hostImages = <<NightlyImage>>
    /\ hostContainers = <<CtUp>>
    /\ hostConfig = ConfigFull
    /\ hostHealth = Payload("healthy", V120)
    /\ hostFaults = {}
    /\ hostLog = <<>>
    /\ Settled

\* An update check against version v was started.
CheckedAgainst(v) ==
    \/ lastCheck.kind # "none" /\ lastCheck.current = v
    \/ \E i \in 1..MaxChecks : check[i].pc # "idle" /\ check[i].currentVersion = v

\* The user presses Check for Updates for a version that no check in flight and not
\* the last completed check ran against.
NextReconcile ==
    \/ ~CheckedAgainst(ReplaceFirst(versionInfo.current, "v")) /\ CheckStart
    \/ \E i \in 1..MaxChecks : CheckRegistryDone(i)
    \/ \E i \in 1..MaxChecks : CheckReleasesDone(i)
    \/ HealthTick
    \/ HostHealthChanges

SpecReconcile == InitReconcile /\ [][NextReconcile]_vars

(***************************************************************************)
(* Claims about the version record.                                        *)
(***************************************************************************)
\* The health endpoint answered with a body that JSON.parse accepts.
HealthRead == HealthResult.ok /\ ~IsEmptyBody(HealthResult.out) /\ JsonParses(HealthResult.out)

C21_Step ==
    /\ check' # check =>
         /\ versionInfo'.current = versionInfo.current
         /\ versionInfo'.buildDate = versionInfo.buildDate
    /\ (versionInfo'.current # versionInfo.current
          \/ versionInfo'.buildDate # versionInfo.buildDate) => HealthTick /\ HealthRead
    /\ HealthTick =>
         IF HealthRead
         THEN versionInfo' = [versionInfo EXCEPT !.current = HealthResult.out.version,
                                                 !.buildDate = HealthResult.out.build_date]
         ELSE versionInfo' = versionInfo

\* C21: no step that starts or ends an update check changes versionInfo.current or
\* versionInfo.buildDate, a health fetch that fails or reads nothing usable changes
\* nothing of versionInfo, and a health fetch that parsed writes these two fields only.
C21_VersionKept == [][C21_Step]_vars

C21_Witness ==
    /\ versionInfo.current = TagSep
    /\ versionInfo.updateError # Undefined
    /\ versionInfo.latestNightly # Undefined
    /\ healthStatus = NoHealth
(***************************************************************************)
(* Claims about the log buffers.                                           *)
(***************************************************************************)
\* The lines tail printed that JSON.parse accepts, and the k-th of them from the end.
ParsedAt(lines) == {i \in 1..Len(lines) : lines[i].parses}
FromEnd(lines, k) ==
    CHOOSE i \in ParsedAt(lines) : Cardinality({j \in ParsedAt(lines) : j > i}) = k - 1

NewestFirst(out, lines) ==
    /\ Len(out) = Cardinality(ParsedAt(lines))
    /\ Len(out) <= Len(lines)
    /\ \A k \in 1..Len(out) : out[k] = lines[FromEnd(lines, k)].value

C22_Fetched ==
    /\ NewestFirst(fetchAppLogs(TailResult(TRUE)), LastLines(hostLog, TailLines))
    /\ fetchAppLogs(TailResult(FALSE)) = <<>>

C22_Replaced ==
    appLogs' # appLogs =>
        \/ NewestFirst(appLogs', LastLines(hostLog, TailLines))
        \/ appLogs' = <<>>

\* C22: what the application-log fetch stores is, entry for entry, the lines of the
\* last 500 that parse, each whole, the last line first, never more entries than
\* lines; a failed read stores the empty list; a fetch replaces appLogs.
C22_NewestFirst == [](C22_Fetched) /\ [][C22_Replaced]_vars

C22_Witness ==
    /\ Len(hostLog) = 3
    /\ hostLog[1].parses /\ ~hostLog[2].parses /\ hostLog[3].parses
    /\ hostLog[3].value = EntryInfo /\ hostLog[1].value = EntryError
    /\ appLogs = <<EntryInfo, EntryError>>
    /\ Field(appLogs[1], <<"s", "p", "e", "c", "i", "e", "s">>) = <<"O", "w", "l">>
\* A step in which fetchLogs ran: the timer's callback, the button or the effect.
LogsFetched == LogTick \/ fetchLogsClick \/ LogsEffect

NoContainer == ~containerStatus.exists \/ ~Truthy(containerStatus.containerId)

C23_Step ==
    /\ LogsFetched =>
         /\ NoContainer => containerLogs' = <<>> /\ issued'.logs = <<>>
         /\ ~NoContainer /\ LogsResult.ok => containerLogs' = LogsResult.out
         /\ ~NoContainer /\ ~LogsResult.ok => containerLogs' = <<"Error fetching logs">>
    /\ containerLogs' # containerLogs => LogsFetched

\* C23: a container-log fetch stores the output of docker logs --tail 200 alone, the
\* text 'Error fetching logs' alone when the command fails, and the empty text, with
\* no command issued, when containerStatus has no container or no container id;
\* nothing else writes the buffer.
C23_LogsReplaced == [][C23_Step]_vars

C23_Witness ==
    /\ containerStatus.exists /\ Truthy(containerStatus.containerId)
    /\ hostDocker = "absent"
    /\ containerLogs = <<"Error fetching logs">>
    /\ issued.logs = <<"docker logs --tail 200">>
\* A step that ends a check of the given path with the given kind of answer.
CheckEnds(path, answer) ==
    /\ \E i \in 1..MaxChecks : check[i].pc = path /\ check'[i].pc = "idle"
    /\ lastCheck'.answer = answer

C24_Step ==
    /\ CheckEnds("releases", "object") =>
         /\ versionInfo'.latest = IF lastCheck'.release.hasTag
                                  THEN ReplaceFirst(lastCheck'.release.tag_name, "v")
                                  ELSE Undefined
         /\ versionInfo'.releaseNotes = lastCheck'.release.body
         /\ versionInfo'.releaseUrl = lastCheck'.release.html_url
         /\ ~versionInfo'.checkingUpdate
    /\ CheckEnds("registry", "array") =>
         /\ versionInfo'.latestNightly # Undefined
         /\ versionInfo'.releaseUrl = PackagesUrl
         /\ ~versionInfo'.checkingUpdate

MountTimerFires ==
    /\ timers[MountTimer] > 0
    /\ FreeChecks # {}
    /\ LET i == CHOOSE k \in FreeChecks : \A m \in FreeChecks : k <= m
           currentVersion == ReplaceFirst(versionInfo.current, "v")
           isNightly == Includes(currentVersion, NightlyWord)
       IN check' = [check EXCEPT ![i] = [pc |-> IF isNightly THEN "registry" ELSE "releases",
                                         currentVersion |-> currentVersion,
                                         owner |-> "ui"]]
    /\ versionInfo' = [versionInfo EXCEPT !.checkingUpdate = TRUE]
    /\ timers' = [timers EXCEPT ![MountTimer] = 0]
    /\ UNCHANGED <<hostVars, dockerStatus, systemdStatus, containerStatus, healthStatus,
                   loading, upgrading, refresh, upgrade, lastProbe, lastCheck, alerts,
                   cmdLog, issued, viewVars, controlVars>>

InitMount ==
    /\ hostDocker = "active"
    /\ hostUnit \in {u \in Units : u.exists = u.active}
    /\ hostImages = <<NightlyImage>>
    /\ hostContainers = <<CtUp>>
    /\ hostConfig = ConfigFull
    /\ hostHealth \in {Payload("healthy", V120), Payload("healthy", TagSep)}
    /\ hostFaults = {}
    /\ hostLog = <<>>
    /\ InitState
    /\ refresh = <<NewTask(FALSE)>>

CheckDone ==
    \/ \E i \in 1..MaxChecks : CheckRegistryDone(i)
    \/ \E i \in 1..MaxChecks : CheckReleasesDone(i)

NextMount ==
    \/ RefreshStep
    \/ HealthTick
    \/ MountTimerFires
    \/ CheckDone

\* The timeout fires, curl returns (-m 5, -m 10), and a refreshStatus that awaits a
\* probe goes on.
SpecMount ==
    /\ InitMount
    /\ [][NextMount]_vars
    /\ WF_vars(MountTimerFires) /\ WF_vars(HealthTick) /\ WF_check(CheckDone)
    /\ ([]<>(~RefreshPending) \/ []<><<RefreshStep>>_vars)

VersionKnown == versionInfo.current # <<>>

\* C25: once versionInfo.current holds the version a health response reported, an
\* update check that reads this version is started without any click, whether the
\* response arrived before or after the timeout of the mount fired.
C25_CheckedOnceKnown == VersionKnown ~> CheckedAgainst(ReplaceFirst(versionInfo.current, "v"))
(***************************************************************************)
(* Claims about the status records together.                               *)
(***************************************************************************)
\* C26: in every state a status record whose running (or enabled) flag is set has
\* its existence flag set: container running => exists, unit running => exists,
\* unit enabled => exists, Docker running => available.
C26_RunningImpliesExists ==
    /\ containerStatus.running => containerStatus.exists
    /\ systemdStatus.running => systemdStatus.exists
    /\ systemdStatus.enabled => systemdStatus.exists
    /\ dockerStatus.running => dockerStatus.available

C26_Witness ==
    /\ containerStatus.running /\ ~Truthy(containerStatus.containerId)
    /\ dockerStatus.running
    /\ systemdStatus.exists /\ ~systemdStatus.running
    /\ refresh = <<>>
(***************************************************************************)
(* The upgrade with its commands settling: docker and systemctl end, curl  *)
(* runs with a time limit, and a refreshStatus that awaits a probe goes on.*)
(***************************************************************************)
UpgradeCommandSettles ==
    \/ UpgradePull
    \/ UpgradeRestart
    \/ UpgradeStop
    \/ UpgradeInspect
    \/ UpgradeRemove
    \/ UpgradeRun

\* The hosts of InitUpgrade on which Docker is installed and the application answers,
\* before any update check.
InitUpgradeFair ==
    /\ InitUpgrade
    /\ hostDocker # "absent"
    /\ hostConfig = ConfigPorts
    /\ hostHealth.kind = "json"
    /\ versionInfo = Fetched.info

SpecUpgradeFair ==
    /\ InitUpgradeFair
    /\ [][NextUpgrade]_vars
    /\ WF_upgrade(UpgradeCommandSettles)
    /\ WF_check(CheckDone)
    /\ ([]<>(~RefreshPending) \/ []<><<RefreshStep>>_vars)

\* An invocation of upgradeBirdNetGo is between its first await and its finally.
UpgradeRunning == upgrade.pc # "idle"

C27_Started == upgrade'.run # upgrade.run => ~UpgradeRunning /\ ~upgrading

C28_LoadingWhileRefreshing == loading <=> RefreshPending
C29_Step ==
    CheckEnds("releases", "object") \/ CheckEnds("registry", "array")
        => versionInfo'.updateError = Undefined

\* C29: a check that resolves with data leaves versionInfo without an updateError,
\* also when an earlier check stored one.
C29_ErrorCleared == [][C29_Step]_vars

(***************************************************************************)
(* The container handlers without a container id.                          *)
(***************************************************************************)
StatusRecords == <<dockerStatus, systemdStatus, containerStatus, healthStatus, versionInfo>>

NoContainerId == containerStatus.containerId = Undefined

\* A container handler passes its guard and spawns its command.
ContainerCommandIssued ==
    /\ control.pc = "idle"
    /\ control'.pc = "spawn" /\ control'.action \in ContainerButtons

\* The command of a container handler succeeded.
ContainerCommandDone ==
    /\ control.pc = "spawn" /\ control.action \in ContainerButtons
    /\ control'.pc # "spawn" /\ control'.outcome # "failed"

\* The handler goes on after the refreshStatus it awaited.
ContainerHandlerEnds ==
    /\ control.pc = "refresh" /\ control.action \in ContainerButtons
    /\ control'.pc = "idle"

C30_Step ==
    /\ ContainerCommandIssued =>
         /\ ~NoContainerId
         /\ control'.argv[1] = "docker" /\ control'.argv[3] = containerStatus.containerId
         /\ UNCHANGED <<refresh, StatusRecords>>
    /\ (NoContainerId /\ ~systemdStatus.exists /\ control.pc = "idle" /\ refresh = <<>>) =>
         UNCHANGED <<control, restarting, cmdLog, refresh, loading, StatusRecords>>
    /\ ContainerCommandDone =>
         /\ control'.pc = "refresh"
         /\ refresh' = Append(refresh, [pc |-> "docker", gate |-> control.gate,
                                        steps |-> <<>>, owner |-> "control"])
    /\ ContainerHandlerEnds =>
         \E i \in 1..Len(refresh) :
            /\ refresh[i].owner = "control"
            /\ Append(refresh[i].steps, refresh[i].pc) = RefreshOrder
            /\ refresh' = RemoveAt(refresh, i)

\* C30: a container handler spawns its docker command only when containerStatus holds
\* a container id; where none is held (and no unit offers the service controls) a
\* press issues nothing, starts no refreshStatus and changes no status record; a
\* command that succeeds is followed at once by a refreshStatus that the handler
\* awaits through all four probes.
C30_NoIdNoCommand == [][C30_Step]_vars

C30_Witness ==
    /\ NoContainerId /\ containerStatus.exists /\ containerStatus.running
    /\ containerStatus.status = <<"Running (non-Docker)">>
    /\ {"Stop Container", "Restart Container"} \subseteq OfferedNow
    /\ control = IdleControl /\ refresh = <<>> /\ cmdLog = <<>>

====
